---- MODULE Spec2Model ----
(***************************************************************************)
(* Price oracle: the aggregation pipeline of CryptoAggregator              *)
(* (calculateAggregatePrice), the fan-out/fan-in of FetchPrice, and the    *)
(* per-feed detail cache read by the /sources endpoint.                    *)
(*                                                                         *)
(* Numbers.  Prices, volumes and weights are float64 in the program; here  *)
(* they are integers and every comparison of the program is carried out    *)
(* exactly (cross-multiplied where the program divides), so floating-point *)
(* rounding and NaN are outside the model.  IQRMultiplier is carried as    *)
(* twice its value (IQRMultiplier2 = 3 is k = 1.5).  Timestamps are        *)
(* integer seconds.                                                        *)
(***************************************************************************)
EXTENDS Integers, Sequences, FiniteSets, TLC

VARIABLES
    pc,          \* position of the request being served
    symbol,      \* the feed the request asks for
    pairConfig,  \* the configuration of the feed being served
    prices,      \* []*PricePoint collected for calculateAggregatePrice
    now,         \* wall clock (seconds)
    result,      \* what the call returned: a PricePoint or an error
    taskPc,      \* per source: position of its fetch goroutine
    wg,          \* the WaitGroup counter
    resultsChan, \* the buffered channel of fetch results
    chanClosed,  \* whether resultsChan has been closed
    observed,    \* every fetch outcome of the request, failures included
    cache,       \* detail cache: feed -> slice holding its last detail list
    arrays,      \* heap of slices: slice id -> sequence of PricePoint pointers
    points,      \* heap of PricePoints: pointer -> annotated observation
    details,     \* what GetLastAggregationDetails last returned
    mu,          \* the cache's reader/writer lock
    writer,      \* per storing goroutine: its position inside Store
    reader,      \* per reading goroutine: its position inside Fetch
    storeOrder,  \* the Store calls in the order they took the lock
    tampered,    \* feeds of which a caller modified a returned list
    loaded,      \* the LoadedConfig built from the configuration files
    validation,  \* what ValidateLoadedConfig returned for it
    resolved,    \* what GetResolvedPairConfig last returned
    response,    \* the HTTP response a fetcher received
    contract,    \* storage of the ModernOracle contract
    receipt      \* outcome of the last transaction sent to the contract

aggVars == <<pc, pairConfig, prices, now, result>>

fetchVars == <<symbol, taskPc, wg, resultsChan, chanClosed, observed>>

cacheVars == <<cache, arrays, points>>

lockVars == <<mu, writer, reader, storeOrder, tampered>>

configVars == <<loaded, validation, resolved>>

outsideVars == <<response, contract, receipt>>

vars == <<pc, symbol, pairConfig, prices, now, result, taskPc, wg, resultsChan,
          chanClosed, observed, cache, arrays, points, details, mu, writer,
          reader, storeOrder, tampered, loaded, validation, resolved,
          response, contract, receipt>>

(***************************************************************************)
(* Bounds of the explored inputs.                                          *)
(***************************************************************************)
MaxObs == 4        \* longest observation list of the timing family
MaxWeighted == 3   \* longest observation list of the weighting family
MaxPrice == 2      \* sources report prices 0..MaxPrice
MaxVolume == 1     \* sources report volumes -1..MaxVolume
MaxFetchPrice == 2 \* a live fetch reports a price in 1..MaxFetchPrice
MaxClock == 2      \* the clock of a request runs from 0 to MaxClock
MaxWeight == 1     \* configured static weights -1..MaxWeight
Now == 2           \* clock value at which the pure pipeline is run

(***************************************************************************)
(* Small arithmetic over lists of price points.                            *)
(***************************************************************************)
SumWeight(s) ==
    LET f[i \in 0..Len(s)] == IF i = 0 THEN 0 ELSE f[i-1] + s[i].weight
    IN  f[Len(s)]

SumVolume(s) ==
    LET f[i \in 0..Len(s)] == IF i = 0 THEN 0 ELSE f[i-1] + s[i].volume
    IN  f[Len(s)]

SumPositiveVolume(s) ==
    LET f[i \in 0..Len(s)] ==
            IF i = 0 THEN 0
            ELSE IF s[i].volume > 0 THEN f[i-1] + s[i].volume ELSE f[i-1]
    IN  f[Len(s)]

(***************************************************************************)
(* sort.Slice(validPrices, less by Price).  For the short slices of a feed *)
(* the Go runtime sorts by insertion: an element moves left while its      *)
(* price is strictly smaller than its left neighbour's, so observations    *)
(* with equal prices keep the order in which they arrived.                 *)
(***************************************************************************)
InsertByPrice(sorted, x) ==
    LET k == Cardinality({i \in 1..Len(sorted) : sorted[i].price <= x.price})
    IN  SubSeq(sorted, 1, k) \o <<x>> \o SubSeq(sorted, k+1, Len(sorted))

SortByPrice(s) ==
    LET f[i \in 0..Len(s)] == IF i = 0 THEN <<>> ELSE InsertByPrice(f[i-1], s[i])
    IN  f[Len(s)]

(***************************************************************************)
(* Stage 1: staleness filter.                                              *)
(***************************************************************************)
\* variant: the age limit is off by one second
IsFresh_OffByOne(p, config, t) == t - p.ts <= config.MaxPriceAgeSeconds + 1

\* variant: an observation aged exactly the limit is dropped
IsFresh_StrictlyYounger(p, config, t) == t - p.ts < config.MaxPriceAgeSeconds

IsFresh(p, config, t) == t - p.ts <= config.MaxPriceAgeSeconds

FreshPrices(ps, config, t) == SelectSeq(ps, LAMBDA p : IsFresh(p, config, t))

(***************************************************************************)
(* Stage 2: IQR outlier rejection over the stale-survivors sorted by price.*)
(* lowerBound = q1 - k*iqr and upperBound = q3 + k*iqr; with k carried as  *)
(* IQRMultiplier2 / 2 the comparisons are multiplied through by 2.         *)
(***************************************************************************)
Q1(sorted) == sorted[(Len(sorted) \div 4) + 1].price

Q3(sorted) == sorted[((Len(sorted) * 3) \div 4) + 1].price

LowerBound2(sorted, config) ==
    2 * Q1(sorted) - config.IQRMultiplier2 * (Q3(sorted) - Q1(sorted))

UpperBound2(sorted, config) ==
    2 * Q3(sorted) + config.IQRMultiplier2 * (Q3(sorted) - Q1(sorted))

\* variant: a price exactly on a bound is rejected
InBounds_Strict(p, sorted, config) ==
    /\ 2 * p.price > LowerBound2(sorted, config)
    /\ 2 * p.price < UpperBound2(sorted, config)

InBounds(p, sorted, config) ==
    /\ 2 * p.price >= LowerBound2(sorted, config)
    /\ 2 * p.price <= UpperBound2(sorted, config)

\* variant: the filter runs on any number of survivors, with strict bounds
IQRFilter_AlwaysStrict(sorted, config) ==
    SelectSeq(sorted, LAMBDA p : InBounds_Strict(p, sorted, config))

IQRFilter(sorted, config) ==
    IF Len(sorted) < 4
    THEN sorted
    ELSE SelectSeq(sorted, LAMBDA p : InBounds(p, sorted, config))

(***************************************************************************)
(* The working set: validPrices as it stands when the weighting starts.    *)
(***************************************************************************)
ValidPrices(ps, config, t) ==
    SortByPrice(IQRFilter(SortByPrice(FreshPrices(ps, config, t)), config))

(***************************************************************************)
(* Stage 4: volume-enhanced weights.  dynamicWeight = Weight*(1+Volume/V)  *)
(* when V > 0 and Volume > 0, else Weight.  When V > 0 every dynamic       *)
(* weight is carried multiplied by V (a positive factor, so the signs and  *)
(* the comparison with half the total are unchanged).                      *)
(***************************************************************************)
\* variant: the boost is applied whatever the sign of the volume
DynamicWeight_Unconditional(p, totalVolume) ==
    IF totalVolume > 0
    THEN p.weight * (totalVolume + p.volume)
    ELSE p.weight

DynamicWeight(p, totalVolume) ==
    IF totalVolume > 0
    THEN IF p.volume > 0 THEN p.weight * (totalVolume + p.volume)
                         ELSE p.weight * totalVolume
    ELSE p.weight

CumulativeDynamicWeight(s, totalVolume, n) ==
    LET f[i \in 0..n] ==
            IF i = 0 THEN 0 ELSE f[i-1] + DynamicWeight(s[i], totalVolume)
    IN  f[n]

TotalDynamicWeight(s, totalVolume) == CumulativeDynamicWeight(s, totalVolume, Len(s))

\* variant: the upper-middle element
MedianIdx_UpperMiddle(s) == (Len(s) \div 2) + 1

\* index (1-based) of the lower-middle element
MedianIdx(s) ==
    LET medianIdx == Len(s) \div 2
    IN  IF Len(s) % 2 = 0 /\ medianIdx > 0 THEN medianIdx ELSE medianIdx + 1

\* variant: the walk stops only once the cumulative weight exceeds half
CrossingIndices_Strict(s, totalVolume) ==
    {i \in 1..Len(s) :
        2 * CumulativeDynamicWeight(s, totalVolume, i)
            > TotalDynamicWeight(s, totalVolume)}

\* indices at which the cumulative walk reaches half of the total
CrossingIndices(s, totalVolume) ==
    {i \in 1..Len(s) :
        2 * CumulativeDynamicWeight(s, totalVolume, i)
            >= TotalDynamicWeight(s, totalVolume)}

Min(S) == CHOOSE x \in S : \A y \in S : x <= y

ErrorResult(e) == [err |-> e, source |-> "", price |-> 0, volume |-> 0, ts |-> 0]

\* variant: an even-sized working set yields the mean of its two middle prices
FallbackResult_Averaged(s) ==
    [err    |-> "none",
     source |-> "aggregated_fallback_median_dyn",
     price  |-> IF Len(s) % 2 = 0
                THEN (s[Len(s) \div 2].price + s[(Len(s) \div 2) + 1].price) \div 2
                ELSE s[MedianIdx(s)].price,
     volume |-> SumVolume(s),
     ts     |-> s[MedianIdx(s)].ts]

FallbackResult(s) ==
    [err    |-> "none",
     source |-> "aggregated_fallback_median_dyn",
     price  |-> s[MedianIdx(s)].price,
     volume |-> SumVolume(s),
     ts     |-> s[MedianIdx(s)].ts]

\* variant: the result carries the timestamp of the last observation of the walk
WeightedMedianResult_LastTimestamp(s) ==
    LET totalVolume == SumPositiveVolume(s)
        crossing    == CrossingIndices(s, totalVolume)
    IN  IF crossing = {}
        THEN ErrorResult("no_weighted_median")
        ELSE [err    |-> "none",
              source |-> "aggregated_vol_weighted_median",
              price  |-> s[Min(crossing)].price,
              volume |-> totalVolume,
              ts     |-> s[Len(s)].ts]

WeightedMedianResult(s) ==
    LET totalVolume == SumPositiveVolume(s)
        crossing    == CrossingIndices(s, totalVolume)
    IN  IF crossing = {}
        THEN ErrorResult("no_weighted_median")
        ELSE [err    |-> "none",
              source |-> "aggregated_vol_weighted_median",
              price  |-> s[Min(crossing)].price,
              volume |-> totalVolume,
              ts     |-> s[Min(crossing)].ts]

WeighValidPrices(s) ==
    IF SumWeight(s) <= 0
    THEN IF Len(s) > 0 THEN FallbackResult(s)
                       ELSE ErrorResult("cannot_calculate_median")
    ELSE IF TotalDynamicWeight(s, SumPositiveVolume(s)) <= 0
    THEN IF Len(s) > 0 THEN FallbackResult(s)
                       ELSE ErrorResult("cannot_calculate_median")
    ELSE WeightedMedianResult(s)

\* variant: the gate after the staleness filter is missing
calculateAggregatePrice_NoStaleGate(ps, config, t) ==
    IF Len(ps) = 0
    THEN ErrorResult("no_prices")
    ELSE IF Len(IQRFilter(SortByPrice(FreshPrices(ps, config, t)), config))
                < config.MinimumSources
    THEN ErrorResult("insufficient_non_outlier")
    ELSE WeighValidPrices(ValidPrices(ps, config, t))

\* variant: the gate after the outlier rejection is missing
calculateAggregatePrice_NoOutlierGate(ps, config, t) ==
    IF Len(ps) = 0
    THEN ErrorResult("no_prices")
    ELSE IF Len(FreshPrices(ps, config, t)) < config.MinimumSources
    THEN ErrorResult("insufficient_non_stale")
    ELSE WeighValidPrices(ValidPrices(ps, config, t))

calculateAggregatePrice(ps, config, t) ==
    IF Len(ps) = 0
    THEN ErrorResult("no_prices")
    ELSE IF Len(FreshPrices(ps, config, t)) < config.MinimumSources
    THEN ErrorResult("insufficient_non_stale")
    ELSE IF Len(IQRFilter(SortByPrice(FreshPrices(ps, config, t)), config))
                < config.MinimumSources
    THEN ErrorResult("insufficient_non_outlier")
    ELSE WeighValidPrices(ValidPrices(ps, config, t))

(***************************************************************************)
(* The caller's slice after the call.  validPrices is allocated by make    *)
(* and filled with the caller's pointers; both sorts and the outlier       *)
(* filter work on validPrices, and no field of a PricePoint is assigned,   *)
(* so the backing array and the elements of prices are as the caller left  *)
(* them.                                                                   *)
(***************************************************************************)
\* variant: the sort runs on the caller's slice
CallerPricesAfter_SortedInPlace(ps, config, t) == SortByPrice(ps)

CallerPricesAfter(ps, config, t) == ps

(***************************************************************************)
(* Status tags of the detail list.  Every observation handed to the        *)
(* pipeline is tagged by the stage that dropped it: stale by the staleness *)
(* filter, outlier by the IQR filter (which runs only once the first       *)
(* minimum-sources gate has passed), valid otherwise.                      *)
(***************************************************************************)
Sources(s) == {s[i].source : i \in 1..Len(s)}

StatusOf(p, ps, config, t) ==
    LET fresh == FreshPrices(ps, config, t)
    IN  IF ~IsFresh(p, config, t) THEN "stale"
        ELSE IF Len(fresh) < config.MinimumSources THEN "valid"
        ELSE IF p.source \in Sources(IQRFilter(SortByPrice(fresh), config))
             THEN "valid"
             ELSE "outlier"

Annotate(ps, config, t) ==
    [i \in 1..Len(ps) |->
        [source |-> ps[i].source, price |-> ps[i].price, volume |-> ps[i].volume,
         ts |-> ps[i].ts, status |-> StatusOf(ps[i], ps, config, t)]]

WithStatus(ps, config, t, st) ==
    SelectSeq(ps, LAMBDA p : StatusOf(p, ps, config, t) = st)

Aggregated == pc = "done" /\ result.err = "none"

(***************************************************************************)
(* C1.  Every aggregation that returns a result computed its price from a  *)
(* working set of at least MinimumSources observations, each tagged valid  *)
(* and each aged at most MaxPriceAgeSeconds.                               *)
(***************************************************************************)
C1_WorkingSetValid ==
    Aggregated =>
        LET W == ValidPrices(prices, pairConfig, now)
        IN  /\ Len(W) >= pairConfig.MinimumSources
            /\ \A i \in 1..Len(W) :
                  /\ now - W[i].ts <= pairConfig.MaxPriceAgeSeconds
                  /\ StatusOf(W[i], prices, pairConfig, now) = "valid"

\* a result computed from exactly MinimumSources (more than one) observations
\* after a stale observation was dropped
C1_Witness ==
    /\ Aggregated
    /\ pairConfig.MinimumSources > 1
    /\ Len(ValidPrices(prices, pairConfig, now)) = pairConfig.MinimumSources
    /\ \E i \in 1..Len(prices) : now - prices[i].ts > pairConfig.MaxPriceAgeSeconds

(***************************************************************************)
(* C2.  The volume of a successful result equals the sum of the volumes of *)
(* the observations tagged valid in that call, on the weighted-median path *)
(* and on the fallback path.                                               *)
(***************************************************************************)
C2_VolumeIsSumOfValid ==
    Aggregated =>
        result.volume = SumVolume(WithStatus(prices, pairConfig, now, "valid"))

(***************************************************************************)
(* C3.  With at least 4 stale-survivors, an observation is rejected as an  *)
(* outlier exactly when its price lies strictly outside                    *)
(* [Q1 - k*IQR, Q3 + k*IQR], Q1 and Q3 being the prices at (0-based)       *)
(* indices n div 4 and 3n div 4 of the survivors in ascending price order; *)
(* a price on a bound is kept.                                             *)
(***************************************************************************)
\* the price at 0-based index j of the ascending order of the prices of s,
\* by counting
PriceAtRank(s, j) ==
    CHOOSE v \in {s[i].price : i \in 1..Len(s)} :
        /\ Cardinality({i \in 1..Len(s) : s[i].price < v}) <= j
        /\ j < Cardinality({i \in 1..Len(s) : s[i].price <= v})

StrictlyOutside(p, fresh, config) ==
    LET n   == Len(fresh)
        q1  == PriceAtRank(fresh, n \div 4)
        q3  == PriceAtRank(fresh, (3 * n) \div 4)
        iqr == q3 - q1
    IN  \/ 2 * p.price < 2 * q1 - config.IQRMultiplier2 * iqr
        \/ 2 * p.price > 2 * q3 + config.IQRMultiplier2 * iqr

IQRStageRan ==
    /\ pc = "done"
    /\ Len(FreshPrices(prices, pairConfig, now)) >= 4
    /\ Len(FreshPrices(prices, pairConfig, now)) >= pairConfig.MinimumSources

C3_OutlierIffOutsideBounds ==
    IQRStageRan =>
        LET fresh == FreshPrices(prices, pairConfig, now)
        IN  \A i \in 1..Len(fresh) :
                (StatusOf(fresh[i], prices, pairConfig, now) = "outlier")
                    <=> StrictlyOutside(fresh[i], fresh, pairConfig)

\* one observation exactly on the lower bound is kept while the IQR is not
\* degenerate, and another call rejects an observation
C3_Witness ==
    /\ IQRStageRan
    /\ LET fresh == FreshPrices(prices, pairConfig, now)
       IN  /\ PriceAtRank(fresh, (3 * Len(fresh)) \div 4)
                  > PriceAtRank(fresh, Len(fresh) \div 4)
           /\ \E i \in 1..Len(fresh) :
                  /\ 2 * fresh[i].price
                       = 2 * PriceAtRank(fresh, Len(fresh) \div 4)
                         - pairConfig.IQRMultiplier2
                           * (PriceAtRank(fresh, (3 * Len(fresh)) \div 4)
                              - PriceAtRank(fresh, Len(fresh) \div 4))
                  /\ fresh[i].price < PriceAtRank(fresh, Len(fresh) \div 4)
                  /\ StatusOf(fresh[i], prices, pairConfig, now) = "valid"

(***************************************************************************)
(* C5.  The output depends only on the set of observations: every arrival  *)
(* order of the same observations yields the same result or error.         *)
(***************************************************************************)
Reordered(ps, f) == [i \in 1..Len(ps) |-> ps[f[i]]]

C5_OrderIndependent ==
    pc = "done" =>
        \A f \in Permutations(1..Len(prices)) :
            calculateAggregatePrice(Reordered(prices, f), pairConfig, now) = result

(***************************************************************************)
(* C6.  A price fetch that returns without error returns a price strictly  *)
(* greater than 0.                                                         *)
(***************************************************************************)
C6_PricePositive == Aggregated => result.price > 0

(***************************************************************************)
(* Inputs of the pure pipeline.                                            *)
(***************************************************************************)
AggregationParams ==
    { [MinimumSources |-> 1, MaxPriceAgeSeconds |-> 1, IQRMultiplier2 |-> 2],
      [MinimumSources |-> 3, MaxPriceAgeSeconds |-> 1, IQRMultiplier2 |-> 3],
      [MinimumSources |-> 4, MaxPriceAgeSeconds |-> 1, IQRMultiplier2 |-> 1] }

\* observations that differ in price and age, one unit of volume and weight each
TimingPoints ==
    [price : 0..MaxPrice, volume : {1}, ts : 0..Now, weight : {1}]

\* fresh observations that differ in price, volume and static weight
WeightingPoints ==
    [price : 0..MaxPrice, volume : -1..MaxVolume, ts : {Now}, weight : -1..MaxWeight]

\* the i-th observation of a list comes from source i
Tagged(f) == [i \in DOMAIN f |-> [source |-> i, price |-> f[i].price,
                                  volume |-> f[i].volume, ts |-> f[i].ts,
                                  weight |-> f[i].weight]]

PriceLists ==
    {Tagged(f) : f \in UNION {[1..n -> TimingPoints] : n \in 1..MaxObs}}
    \cup
    {Tagged(f) : f \in UNION {[1..n -> WeightingPoints] : n \in 1..MaxWeighted}}

(***************************************************************************)
(* Configuration.  PairsConfig as loaded from pairs.json: per symbol the   *)
(* CEX exchanges and DEX sources to consult, their weights and the         *)
(* aggregation parameters.  BTCUSDT lists an exchange FetchPrice has no    *)
(* fetcher for and leaves one exchange without a weight.                   *)
(***************************************************************************)
AllSources == {"binance", "coinbase", "kraken", "bitfinex", "uniswap_v3"}

PairsConfig ==
    [ETHUSDT |->
        [CEXEnabled |-> TRUE,
         Exchanges  |-> <<"binance", "coinbase">>,
         CEXWeights |-> [binance |-> 2, coinbase |-> 1],
         DEXEnabled |-> TRUE,
         DEXSources |-> <<"uniswap_v3">>,
         DEXWeights |-> [uniswap_v3 |-> 1],
         MinimumSources |-> 2, MaxPriceAgeSeconds |-> 1, IQRMultiplier2 |-> 3],
     BTCUSDT |->
        [CEXEnabled |-> TRUE,
         Exchanges  |-> <<"binance", "kraken", "bitfinex">>,
         CEXWeights |-> [binance |-> 2, bitfinex |-> 1],
         DEXEnabled |-> FALSE,
         DEXSources |-> <<"uniswap_v3">>,
         DEXWeights |-> [uniswap_v3 |-> 1],
         MinimumSources |-> 1, MaxPriceAgeSeconds |-> 1, IQRMultiplier2 |-> 3]]

Symbols == {"ETHUSDT", "BTCUSDT", "XRPUSDT"}

Range(s) == {s[i] : i \in 1..Len(s)}

\* the sources FetchPrice starts a goroutine for
Tasks(config) ==
    (IF config.CEXEnabled THEN Range(config.Exchanges) ELSE {})
    \cup (IF config.DEXEnabled THEN Range(config.DEXSources) ELSE {})

\* variant: the buffer is sized for the exchanges only
numSources_ExchangesOnly(config) == Len(config.Exchanges)

numSources(config) == Len(config.Exchanges) + Len(config.DEXSources)

IsCEX(config, s) == config.CEXEnabled /\ s \in Range(config.Exchanges)

\* the switch on the exchange / source name
HasFetcher(config, s) ==
    IF IsCEX(config, s) THEN s \in {"binance", "coinbase", "kraken"}
                        ELSE s = "uniswap_v3"

Weights(config, s) == IF IsCEX(config, s) THEN config.CEXWeights ELSE config.DEXWeights

(***************************************************************************)
(* What one fetcher can return: an error (request failed, non-200 status,  *)
(* unparsable body or price), or a PricePoint with the parsed price and    *)
(* volume.  fetchCoinbasePrice always reports volume 0.                    *)
(***************************************************************************)
Nil == [nil |-> TRUE]

FetchOutcomes(s) ==
    {Nil} \cup
    [nil : {FALSE}, price : 1..MaxFetchPrice,
     volume : IF s = "coinbase" THEN {0} ELSE {1}]

\* what the goroutine of source s sends on resultsChan for a fetch outcome o
Sent(config, s, o, t) ==
    IF ~HasFetcher(config, s) THEN Nil
    ELSE IF o.nil THEN Nil
    ELSE IF s \notin DOMAIN Weights(config, s) THEN Nil
    ELSE [nil |-> FALSE, source |-> s, price |-> o.price, volume |-> o.volume,
          ts |-> t, weight |-> Weights(config, s)[s]]

PricePointOf(m) == [source |-> m.source, price |-> m.price, volume |-> m.volume,
                    ts |-> m.ts, weight |-> m.weight]

(***************************************************************************)
(* The detail list of a request: one entry per fetch task, a failed fetch  *)
(* recorded with status fetch_error and no numeric data, the others tagged *)
(* by the pipeline.                                                        *)
(***************************************************************************)
\* variant: a failed fetch is recorded without the fetch_error tag
Observation_NoErrorTag(s, m, t) ==
    IF m.nil
    THEN [source |-> s, price |-> 0, volume |-> 0, ts |-> t, status |-> "pending"]
    ELSE [source |-> s, price |-> m.price, volume |-> m.volume, ts |-> m.ts,
          status |-> "pending"]

Observation(s, m, t) ==
    IF m.nil
    THEN [source |-> s, price |-> 0, volume |-> 0, ts |-> t, status |-> "fetch_error"]
    ELSE [source |-> s, price |-> m.price, volume |-> m.volume, ts |-> m.ts,
          status |-> "pending"]

AnnotateObserved(obs, ps, config, t) ==
    [i \in 1..Len(obs) |->
        IF obs[i].source \notin Sources(ps) THEN obs[i]
        ELSE [obs[i] EXCEPT !.status =
                 StatusOf(CHOOSE p \in Range(ps) : p.source = obs[i].source,
                          ps, config, t)]]

(***************************************************************************)
(* Detail cache over a heap.  Store copies the list into fresh PricePoints *)
(* behind a fresh slice and makes the feed's entry point to it; Fetch      *)
(* reads the list the entry points to.                                     *)
(***************************************************************************)
Deref(a) == [i \in 1..Len(arrays[a]) |-> points[arrays[a][i]]]

NewArray == Cardinality(DOMAIN arrays) + 1

NewPoint(i) == Cardinality(DOMAIN points) + i

Store(feed, list) ==
    /\ points' = points @@ [q \in {NewPoint(i) : i \in 1..Len(list)} |->
                               list[q - Cardinality(DOMAIN points)]]
    /\ arrays' = arrays @@ (NewArray :> [i \in 1..Len(list) |-> NewPoint(i)])
    /\ cache'  = (feed :> NewArray) @@ cache

Fetch(feed) ==
    IF feed \in DOMAIN cache
    THEN [feed |-> feed, err |-> "none", list |-> Deref(cache[feed])]
    ELSE [feed |-> feed, err |-> "not found", list |-> <<>>]

NoDetails == [feed |-> "", err |-> "not asked", list |-> <<>>]

\* variant: the detail list is kept only when the aggregation succeeded
StoreOnReturn_OnlyOnSuccess(res, feed, list) ==
    IF res.err = "none" THEN Store(feed, list)
                        ELSE UNCHANGED <<cache, arrays, points>>

\* the write of the detail list that follows the pipeline, whatever it returned
StoreOnReturn(res, feed, list) == Store(feed, list)

(***************************************************************************)
(* FetchPrice: fan-out, fan-in, aggregation.                               *)
(***************************************************************************)
(***************************************************************************)
(* The cache under concurrent use.  Store holds the write lock while it    *)
(* replaces the entry of a feed element by element; Fetch holds the read   *)
(* lock while it copies the entry, PricePoint by PricePoint, into a fresh  *)
(* slice that it returns.                                                  *)
(***************************************************************************)
MaxStores == 2

MaxReaders == 2

MaxFetches == 1

MaxDetailLen == 2

Writers == 1..MaxStores

Readers == 1..MaxReaders

\* the feed that is aggregated, and the feeds whose details are asked for
StoredFeeds == {"ETHUSDT"}

CacheFeeds == {"ETHUSDT", "BTCUSDT"}

SourceOrder == <<"binance", "coinbase", "kraken", "bitfinex", "uniswap_v3">>

StatusOrder == <<"valid", "stale", "outlier", "fetch_error", "valid">>

\* the annotated list that the w-th aggregation attempt hands to Store
DetailList(w) ==
    [i \in 1..MaxDetailLen |->
        [source |-> SourceOrder[i], price |-> w, volume |-> 1, ts |-> 0,
         status |-> StatusOrder[i]]]

\* variant: readers do not wait for the writer
CanRLock_Unguarded(m) == TRUE

\* sync.RWMutex: RLock waits while a writer holds the lock
CanRLock(m) == m.writer = 0

\* sync.RWMutex: Lock waits for the writer and for every reader
CanLock(m) == m.writer = 0 /\ m.readers = {}

\* variant: Fetch returns the cached pointers themselves
CopiedPointer_Shallow(p) == p

\* the deep-copy read path: every PricePoint is copied to a fresh one
CopiedPointer(p) == NewPoint(1)

WriterIdle == [pc |-> "idle", feed |-> "", i |-> 0]

ReaderIdle == [pc |-> "idle", feed |-> "", src |-> 0, n |-> 0, arr |-> 0, i |-> 0,
               calls |-> 0, mutated |-> FALSE, afterTamper |-> FALSE]

LockIdle ==
    /\ mu = [writer |-> 0, readers |-> {}]
    /\ writer = [w \in Writers |-> WriterIdle]
    /\ reader = [r \in Readers |-> ReaderIdle]
    /\ storeOrder = <<>>
    /\ tampered = {}

\* no configuration in play
NoLoaded == [Chains |-> {}, Assets |-> {}, Sources |-> <<>>, Pairs |-> <<>>]

NoValidation == [kind |-> "pending", item |-> ""]

NoResolved ==
    [asked |-> "", err |-> "pending", PairID |-> "", BaseAsset |-> "",
     QuoteAsset |-> "", Chain |-> "", AggregationParams |-> <<>>,
     ResolvedSources |-> <<>>, SourceWeights |-> <<>>]

ConfigIdle ==
    /\ loaded = NoLoaded
    /\ validation = NoValidation
    /\ resolved = NoResolved

\* no fetcher has called out, and no contract is deployed
NoResponse == [source |-> "", failed |-> FALSE, status |-> 0, body |-> ""]

NoContract == [deployed |-> FALSE]

NoReceipt == [call |-> "none", reverted |-> FALSE]

OutsideIdle ==
    /\ response = NoResponse
    /\ contract = NoContract
    /\ receipt = NoReceipt

NoConfig == [MinimumSources |-> 0, MaxPriceAgeSeconds |-> 0, IQRMultiplier2 |-> 0]

FetchIdle ==
    /\ symbol = ""
    /\ taskPc = [s \in AllSources |-> "none"]
    /\ wg = 0
    /\ resultsChan = <<>>
    /\ chanClosed = FALSE
    /\ observed = <<>>

CacheEmpty ==
    /\ cache = <<>>
    /\ arrays = <<>>
    /\ points = <<>>
    /\ details = NoDetails

Init ==
    /\ pc = "idle"
    /\ pairConfig = NoConfig
    /\ prices = <<>>
    /\ now = 0
    /\ result = ErrorResult("pending")
    /\ FetchIdle
    /\ CacheEmpty
    /\ LockIdle
    /\ OutsideIdle
    /\ ConfigIdle

\* GetPairConfig fails: FetchPrice returns the error
FetchPriceNotFound(sym) ==
    /\ pc = "idle"
    /\ sym \notin DOMAIN PairsConfig
    /\ symbol' = sym
    /\ result' = ErrorResult("pair_not_found")
    /\ pc' = "done"
    /\ UNCHANGED <<lockVars, configVars, outsideVars, pairConfig, prices, now, taskPc, wg, resultsChan, chanClosed,
                   observed, cache, arrays, points, details>>

\* GetPairConfig succeeds: one goroutine per source, then the closer
FetchPriceStart(sym) ==
    /\ pc = "idle"
    /\ sym \in DOMAIN PairsConfig
    /\ symbol' = sym
    /\ pairConfig' = PairsConfig[sym]
    /\ taskPc' = [s \in AllSources |->
                     IF s \in Tasks(PairsConfig[sym]) THEN "running" ELSE "none"]
    /\ wg' = Cardinality(Tasks(PairsConfig[sym]))
    /\ pc' = "collect"
    /\ UNCHANGED <<lockVars, configVars, outsideVars, prices, now, result, resultsChan, chanClosed, observed,
                   cache, arrays, points, details>>

\* the goroutine of source s fetches and sends its result (or nil)
FetchTask(s) ==
    /\ pc = "collect"
    /\ taskPc[s] = "running"
    /\ ~chanClosed
    /\ Len(resultsChan) < numSources(pairConfig)
    /\ \E o \in FetchOutcomes(s) :
          LET m == Sent(pairConfig, s, o, now)
          IN  /\ resultsChan' = Append(resultsChan, m)
              /\ observed' = Append(observed, Observation(s, m, now))
    /\ taskPc' = [taskPc EXCEPT ![s] = "sent"]
    /\ UNCHANGED <<lockVars, configVars, outsideVars, pc, symbol, pairConfig, prices, now, result, wg, chanClosed,
                   cache, arrays, points, details>>

\* the deferred wg.Done() of the goroutine of source s
TaskDone(s) ==
    /\ taskPc[s] = "sent"
    /\ taskPc' = [taskPc EXCEPT ![s] = "done"]
    /\ wg' = wg - 1
    /\ UNCHANGED <<lockVars, configVars, outsideVars, pc, symbol, pairConfig, prices, now, result, resultsChan,
                   chanClosed, observed, cache, arrays, points, details>>

\* the closer goroutine: wg.Wait() then close(resultsChan)
CloseChan ==
    /\ pc = "collect"
    /\ wg = 0
    /\ ~chanClosed
    /\ chanClosed' = TRUE
    /\ UNCHANGED <<lockVars, configVars, outsideVars, pc, symbol, pairConfig, prices, now, result, taskPc, wg,
                   resultsChan, observed, cache, arrays, points, details>>

\* one iteration of "for priceResult := range resultsChan"
Collect ==
    /\ pc = "collect"
    /\ resultsChan # <<>>
    /\ resultsChan' = Tail(resultsChan)
    /\ prices' = IF Head(resultsChan).nil THEN prices
                 ELSE Append(prices, PricePointOf(Head(resultsChan)))
    /\ UNCHANGED <<lockVars, configVars, outsideVars, pc, symbol, pairConfig, now, result, taskPc, wg, chanClosed,
                   observed, cache, arrays, points, details>>

\* variant: any failed fetch fails the whole request
FetchPriceResult_FailFast(ps, config, t) ==
    IF Len(ps) < Cardinality(Tasks(config))
    THEN ErrorResult("fetch_failed")
    ELSE calculateAggregatePrice(ps, config, t)

FetchPriceResult(ps, config, t) ==
    IF Len(ps) < config.MinimumSources
    THEN ErrorResult("insufficient_sources")
    ELSE calculateAggregatePrice(ps, config, t)

\* the range loop ends on the closed, drained channel; the rest of FetchPrice
\* runs and the annotated detail list is written to the cache
FetchPriceReturn ==
    /\ pc = "collect"
    /\ chanClosed
    /\ resultsChan = <<>>
    /\ result' = FetchPriceResult(prices, pairConfig, now)
    /\ StoreOnReturn(FetchPriceResult(prices, pairConfig, now), symbol,
                     AnnotateObserved(observed, prices, pairConfig, now))
    /\ pc' = "done"
    /\ UNCHANGED <<lockVars, configVars, outsideVars, symbol, pairConfig, prices, now, taskPc, wg, resultsChan,
                   chanClosed, observed, details>>

\* a second of wall-clock time passes while the request is being served
Tick ==
    /\ pc = "collect"
    /\ now < MaxClock
    /\ now' = now + 1
    /\ UNCHANGED <<lockVars, configVars, outsideVars, pc, symbol, pairConfig, prices, result, taskPc, wg,
                   resultsChan, chanClosed, observed, cache, arrays, points,
                   details>>

\* the /sources handler asks for the last detail list of a feed
GetLastAggregationDetails(feed) ==
    /\ pc = "done"
    /\ details' = Fetch(feed)
    /\ UNCHANGED <<lockVars, configVars, outsideVars, pc, symbol, pairConfig, prices, now, result, taskPc, wg,
                   resultsChan, chanClosed, observed, cache, arrays, points>>

Next ==
    \/ \E sym \in Symbols : FetchPriceNotFound(sym)
    \/ \E sym \in Symbols : FetchPriceStart(sym)
    \/ \E s \in AllSources : FetchTask(s)
    \/ \E s \in AllSources : TaskDone(s)
    \/ CloseChan
    \/ Collect
    \/ FetchPriceReturn
    \/ Tick
    \/ \E feed \in Symbols : GetLastAggregationDetails(feed)

Spec == Init /\ [][Next]_vars

(***************************************************************************)
(* Claims about FetchPrice and the detail cache.                           *)
(***************************************************************************)
Resolved == pc = "done" /\ symbol \in DOMAIN PairsConfig

\* the sources a feed's configuration asks to consult
ConfiguredSources(config) ==
    {s \in AllSources :
        \/ config.CEXEnabled /\ \E i \in 1..Len(config.Exchanges) : config.Exchanges[i] = s
        \/ config.DEXEnabled /\ \E i \in 1..Len(config.DEXSources) : config.DEXSources[i] = s}

Untagged(list) ==
    [i \in 1..Len(list) |-> [source |-> list[i].source, price |-> list[i].price,
                             volume |-> list[i].volume, ts |-> list[i].ts]]

Failed(list) == {list[i].source : i \in {j \in 1..Len(list) : list[j].status = "fetch_error"}}

InsufficientSources ==
    {"insufficient_sources", "insufficient_non_stale", "insufficient_non_outlier"}

RequestDeadline == MaxClock - 1

C11_DeadlineBoundsRequest ==
    Resolved =>
        /\ now <= RequestDeadline
        /\ \A i \in 1..Len(observed) :
              observed[i].ts > RequestDeadline =>
                  /\ observed[i].status = "fetch_error"
                  /\ observed[i].source \notin Sources(prices)

(***************************************************************************)
(* Store and Fetch step by step, and a caller that modifies what Fetch     *)
(* returned.                                                               *)
(***************************************************************************)
CacheInit ==
    /\ pc = "serve"
    /\ pairConfig = NoConfig
    /\ prices = <<>>
    /\ now = 0
    /\ result = ErrorResult("pending")
    /\ FetchIdle
    /\ CacheEmpty
    /\ LockIdle
    /\ OutsideIdle
    /\ ConfigIdle

requestVars == <<pc, pairConfig, prices, now, result, symbol, taskPc, wg,
                 resultsChan, chanClosed, observed, loaded, validation, resolved,
                 response, contract, receipt>>

\* Store takes the write lock and points the entry of the feed at a new slice
StoreBegin(w, feed) ==
    /\ writer[w].pc = "idle"
    /\ CanLock(mu)
    /\ mu' = [mu EXCEPT !.writer = w]
    /\ arrays' = arrays @@ (NewArray :> <<>>)
    /\ cache' = (feed :> NewArray) @@ cache
    /\ writer' = [writer EXCEPT ![w] = [pc |-> "writing", feed |-> feed, i |-> 0]]
    /\ storeOrder' = Append(storeOrder, [w |-> w, feed |-> feed])
    /\ UNCHANGED <<requestVars, points, details, reader, tampered>>

\* Store appends the next annotated observation to the entry
StoreStep(w) ==
    /\ writer[w].pc = "writing"
    /\ writer[w].i < Len(DetailList(w))
    /\ points' = points @@ (NewPoint(1) :> DetailList(w)[writer[w].i + 1])
    /\ arrays' = [arrays EXCEPT ![cache[writer[w].feed]] = Append(@, NewPoint(1))]
    /\ writer' = [writer EXCEPT ![w].i = @ + 1]
    /\ UNCHANGED <<requestVars, cache, details, mu, reader, storeOrder, tampered>>

\* Store releases the write lock
StoreEnd(w) ==
    /\ writer[w].pc = "writing"
    /\ writer[w].i = Len(DetailList(w))
    /\ writer' = [writer EXCEPT ![w].pc = "done"]
    /\ mu' = [mu EXCEPT !.writer = 0]
    /\ UNCHANGED <<requestVars, cacheVars, details, reader, storeOrder, tampered>>

\* Fetch takes the read lock and looks the feed up
FetchBegin(r, feed) ==
    /\ reader[r].pc \in {"idle", "returned"}
    /\ reader[r].calls < MaxFetches
    /\ CanRLock(mu)
    /\ mu' = [mu EXCEPT !.readers = @ \cup {r}]
    /\ IF feed \in DOMAIN cache
       THEN /\ arrays' = arrays @@ (NewArray :> <<>>)
            /\ reader' = [reader EXCEPT ![r] =
                   [pc |-> "reading", feed |-> feed, src |-> cache[feed],
                    n |-> Len(arrays[cache[feed]]), arr |-> NewArray, i |-> 0,
                    calls |-> @.calls + 1, mutated |-> FALSE,
                    afterTamper |-> feed \in tampered]]
       ELSE /\ arrays' = arrays
            /\ reader' = [reader EXCEPT ![r] =
                   [pc |-> "reading", feed |-> feed, src |-> 0, n |-> 0,
                    arr |-> 0, i |-> 0, calls |-> @.calls + 1,
                    mutated |-> FALSE, afterTamper |-> feed \in tampered]]
    /\ UNCHANGED <<requestVars, cache, points, details, writer, storeOrder, tampered>>

\* Fetch copies the next PricePoint of the entry into the slice it will return
FetchStep(r) ==
    /\ reader[r].pc = "reading"
    /\ reader[r].i < reader[r].n
    /\ LET p == arrays[reader[r].src][reader[r].i + 1]
       IN  /\ points' = points @@ (CopiedPointer(p) :> points[p])
           /\ arrays' = [arrays EXCEPT ![reader[r].arr] = Append(@, CopiedPointer(p))]
    /\ reader' = [reader EXCEPT ![r].i = @ + 1]
    /\ UNCHANGED <<requestVars, cache, details, mu, writer, storeOrder, tampered>>

\* Fetch releases the read lock and returns the copy, or "not found"
FetchEnd(r) ==
    /\ reader[r].pc = "reading"
    /\ reader[r].i = reader[r].n
    /\ reader' = [reader EXCEPT ![r].pc = "returned"]
    /\ mu' = [mu EXCEPT !.readers = @ \ {r}]
    /\ details' = IF reader[r].arr = 0
                  THEN [feed |-> reader[r].feed, err |-> "not found", list |-> <<>>]
                  ELSE [feed |-> reader[r].feed, err |-> "none",
                        list |-> Deref(reader[r].arr)]
    /\ UNCHANGED <<requestVars, cacheVars, writer, storeOrder, tampered>>

\* the caller overwrites a field of a PricePoint of the list it was given
Mutate(r, i) ==
    /\ reader[r].pc = "returned"
    /\ reader[r].arr # 0
    /\ ~reader[r].mutated
    /\ i \in 1..Len(arrays[reader[r].arr])
    /\ points' = [points EXCEPT ![arrays[reader[r].arr][i]].status = "tampered"]
    /\ reader' = [reader EXCEPT ![r].mutated = TRUE]
    /\ tampered' = tampered \cup {reader[r].feed}
    /\ UNCHANGED <<requestVars, cache, arrays, details, mu, writer, storeOrder>>

CacheNext ==
    \/ \E w \in Writers, feed \in StoredFeeds : StoreBegin(w, feed)
    \/ \E w \in Writers : StoreStep(w)
    \/ \E w \in Writers : StoreEnd(w)
    \/ \E r \in Readers, feed \in CacheFeeds : FetchBegin(r, feed)
    \/ \E r \in Readers : FetchStep(r)
    \/ \E r \in Readers : FetchEnd(r)
    \/ \E r \in Readers, i \in 1..MaxDetailLen : Mutate(r, i)

SpecCache == CacheInit /\ [][CacheNext]_vars

\* the Store calls on a feed, in lock order
StoresOf(feed) == SelectSeq(storeOrder, LAMBDA s : s.feed = feed)

LastStored(feed) == DetailList(StoresOf(feed)[Len(StoresOf(feed))].w)

PointersOf(a) == {arrays[a][i] : i \in 1..Len(arrays[a])}

(***************************************************************************)
(* C9.  GetLastAggregationDetails returns a copy: the returned slice and   *)
(* its PricePoints are not the cached ones, and whatever a caller does to  *)
(* a returned list the cache keeps what Store wrote.                       *)
(***************************************************************************)
C9_FetchReturnsCopy ==
    /\ \A r \in Readers : \A feed \in DOMAIN cache :
          reader[r].arr # 0 =>
              /\ reader[r].arr # cache[feed]
              /\ PointersOf(reader[r].arr) \cap PointersOf(cache[feed]) = {}
    /\ \A feed \in DOMAIN cache :
          mu.writer = 0 => Deref(cache[feed]) = LastStored(feed)
    /\ \A r \in Readers :
          (reader[r].pc = "returned" /\ reader[r].arr # 0 /\ ~reader[r].mutated
             /\ reader[r].afterTamper)
          => \E w \in Writers : Deref(reader[r].arr) = DetailList(w)

\* a list read after another caller tampered with its own copy of the same feed
C9_Witness ==
    \E r \in Readers :
        /\ reader[r].pc = "returned"
        /\ reader[r].afterTamper
        /\ reader[r].arr # 0
        /\ ~reader[r].mutated
        /\ Deref(reader[r].arr) = LastStored(reader[r].feed)
        /\ \E q \in Readers \ {r} :
              /\ reader[q].mutated
              /\ reader[q].feed = reader[r].feed
              /\ Deref(reader[q].arr) # LastStored(reader[r].feed)

(***************************************************************************)
(* C10.  Under concurrent Store and Fetch, at most one Store writes at a   *)
(* time and no Fetch reads while it does; a Fetch that finds the feed      *)
(* returns the complete list of one single Store on that feed; once the    *)
(* Stores are over the entry is the list of the last Store on the feed.    *)
(***************************************************************************)
C10_StoreFetchAtomic ==
    /\ Cardinality({w \in Writers : writer[w].pc = "writing"}) <= 1
    /\ mu.writer # 0 => \A r \in Readers : reader[r].pc # "reading"
    /\ details.err = "none" =>
          \E k \in 1..Len(StoresOf(details.feed)) :
              details.list = DetailList(StoresOf(details.feed)[k].w)
    /\ (\A w \in Writers : writer[w].pc # "writing") =>
          \A feed \in DOMAIN cache : Fetch(feed).list = LastStored(feed)

\* every Store is over and a Fetch has returned the list of the last one
C10_Witness ==
    /\ \A w \in Writers : writer[w].pc = "done"
    /\ Len(storeOrder) > 1
    /\ details.err = "none"
    /\ details.feed = storeOrder[1].feed
    /\ details.list = LastStored(details.feed)
    /\ details.list # DetailList(storeOrder[1].w)
    /\ \E r \in Readers : reader[r].calls = MaxFetches

(***************************************************************************)
(* C12.  When fewer than MinimumSources observations survive the staleness *)
(* filter, the aggregation fails with the insufficient-sources error of    *)
(* the staleness stage, returns no price, and nothing is tagged outlier.   *)
(***************************************************************************)
C12_StaleGateFails ==
    (/\ pc = "done"
     /\ Len(prices) > 0
     /\ Len(FreshPrices(prices, pairConfig, now)) < pairConfig.MinimumSources)
    => /\ result = ErrorResult("insufficient_non_stale")
       /\ WithStatus(prices, pairConfig, now, "outlier") = <<>>

\* four observations, MinimumSources - 1 = 3 of them fresh
C12_Witness ==
    /\ pc = "done"
    /\ Len(prices) = 4
    /\ pairConfig.MinimumSources = 4
    /\ Len(FreshPrices(prices, pairConfig, now)) = pairConfig.MinimumSources - 1
    /\ result.err = "insufficient_non_stale"
    /\ result.price = 0

(***************************************************************************)
(* C13.  When at least MinimumSources observations survive staleness but   *)
(* fewer than MinimumSources remain after the outlier rejection, the       *)
(* aggregation fails with the insufficient-sources error of the outlier    *)
(* stage and returns no price.                                             *)
(***************************************************************************)
WithinBounds(fresh, config) ==
    {i \in 1..Len(fresh) : ~StrictlyOutside(fresh[i], fresh, config)}

C13_OutlierGateFails ==
    (/\ IQRStageRan
     /\ Cardinality(WithinBounds(FreshPrices(prices, pairConfig, now), pairConfig))
            < pairConfig.MinimumSources)
    => result = ErrorResult("insufficient_non_outlier")

\* four fresh observations, one rejected, MinimumSources = 4
C13_Witness ==
    /\ IQRStageRan
    /\ pairConfig.MinimumSources = 4
    /\ Cardinality(WithinBounds(FreshPrices(prices, pairConfig, now), pairConfig)) = 3
    /\ result.err = "insufficient_non_outlier"
    /\ result.price = 0

(***************************************************************************)
(* C14.  With fewer than 4 stale-survivors nothing is rejected as an       *)
(* outlier, whatever the prices and the multiplier: every survivor is      *)
(* valid and, the gate passed, the result is computed from all of them.    *)
(***************************************************************************)
C14_NoRejectionBelowFour ==
    (pc = "done" /\ Len(FreshPrices(prices, pairConfig, now)) < 4) =>
        LET fresh == FreshPrices(prices, pairConfig, now)
        IN  /\ result.err # "insufficient_non_outlier"
            /\ \A i \in 1..Len(fresh) :
                  StatusOf(fresh[i], prices, pairConfig, now) = "valid"
            /\ Len(fresh) >= pairConfig.MinimumSources =>
                  /\ Len(ValidPrices(prices, pairConfig, now)) = Len(fresh)
                  /\ result = WeighValidPrices(SortByPrice(fresh))

\* three survivors of equal price: bounds of width zero would reject or keep
\* them depending on the comparison, had the filter run
C14_Witness ==
    /\ Aggregated
    /\ pairConfig.MinimumSources = 3
    /\ Len(FreshPrices(prices, pairConfig, now)) = 3
    /\ \A i \in 1..Len(prices) : prices[i].price = prices[1].price
    /\ Len(ValidPrices(prices, pairConfig, now)) = 3

(***************************************************************************)
(* C15.  Once both gates have passed: if the total static weight S or the  *)
(* total dynamic weight D of the working set is <= 0, the provenance is    *)
(* aggregated_fallback_median_dyn and the price is the lower-middle simple *)
(* median (0-based index n/2 - 1 for even n, n/2 for odd n, in ascending   *)
(* price order); otherwise the provenance is                               *)
(* aggregated_vol_weighted_median.                                         *)
(***************************************************************************)
GatesPassed ==
    /\ pc = "done"
    /\ Len(FreshPrices(prices, pairConfig, now)) >= pairConfig.MinimumSources
    /\ Len(ValidPrices(prices, pairConfig, now)) >= pairConfig.MinimumSources

LowerMiddleRank(n) == IF n % 2 = 0 THEN (n \div 2) - 1 ELSE n \div 2

Degenerate(W) ==
    \/ SumWeight(W) <= 0
    \/ TotalDynamicWeight(W, SumPositiveVolume(W)) <= 0

C15_FallbackOnDegenerateWeights ==
    GatesPassed =>
        LET W == ValidPrices(prices, pairConfig, now)
        IN  /\ result.err = "none"
            /\ IF Degenerate(W)
               THEN /\ result.source = "aggregated_fallback_median_dyn"
                    /\ result.price = PriceAtRank(W, LowerMiddleRank(Len(W)))
               ELSE result.source = "aggregated_vol_weighted_median"

\* positive total static weight, total dynamic weight <= 0, three distinct prices
C15_Witness ==
    /\ GatesPassed
    /\ LET W == ValidPrices(prices, pairConfig, now)
       IN  /\ SumWeight(W) > 0
           /\ TotalDynamicWeight(W, SumPositiveVolume(W)) <= 0
           /\ Len(W) = 3
           /\ W[1].price < W[2].price /\ W[2].price < W[3].price
           /\ result.price = W[2].price
    /\ result.source = "aggregated_fallback_median_dyn"

WithinAge(ps, config, t) ==
    {i \in 1..Len(ps) : ~(t - ps[i].ts > config.MaxPriceAgeSeconds)}

Restricted(ps, I) == SelectSeq(ps, LAMBDA p : \E i \in I : ps[i] = p)

C23_StaleIffOverAge ==
    (pc = "done" /\ Len(prices) > 0) =>
        LET kept == WithinAge(prices, pairConfig, now)
        IN  /\ \A i \in 1..Len(prices) :
                  (StatusOf(prices[i], prices, pairConfig, now) = "stale")
                      <=> i \notin kept
            /\ (result.err = "insufficient_non_stale")
                  <=> Cardinality(kept) < pairConfig.MinimumSources
            /\ Cardinality(kept) >= pairConfig.MinimumSources =>
                  result = calculateAggregatePrice(Restricted(prices, kept),
                                                   pairConfig, now)

\* three observations, MinimumSources = 3: two within the limit, one of them
\* aged exactly MaxPriceAgeSeconds, and one aged MaxPriceAgeSeconds + 1
C23_Witness ==
    /\ pc = "done"
    /\ Len(prices) = 3
    /\ pairConfig.MinimumSources = 3
    /\ \E i \in 1..3 : \E j \in 1..3 :
          /\ now - prices[i].ts = pairConfig.MaxPriceAgeSeconds
          /\ StatusOf(prices[i], prices, pairConfig, now) = "valid"
          /\ now - prices[j].ts = pairConfig.MaxPriceAgeSeconds + 1
          /\ StatusOf(prices[j], prices, pairConfig, now) = "stale"
    /\ Len(WithStatus(prices, pairConfig, now, "valid")) = 2
    /\ result.err = "insufficient_non_stale"

\* the aggregation succeeds on an observation aged exactly MaxPriceAgeSeconds
C23_BoundaryKept ==
    /\ Aggregated
    /\ Len(prices) = pairConfig.MinimumSources
    /\ \A i \in 1..Len(prices) :
          now - prices[i].ts = pairConfig.MaxPriceAgeSeconds

(***************************************************************************)
(* C24.  On the normal path (S > 0 and D > 0) the result is the weighted   *)
(* median observation: in the working set sorted ascending by price, the   *)
(* first observation whose cumulative dynamic weight is at least half of   *)
(* D.  The result price is the smallest price at which the cumulative      *)
(* weight, in sort order, reaches half of the total, and the result        *)
(* timestamp is the timestamp of that observation.                         *)
(***************************************************************************)
NormalPath ==
    /\ GatesPassed
    /\ ~Degenerate(ValidPrices(prices, pairConfig, now))

ReachesHalf(W, k) ==
    2 * CumulativeDynamicWeight(W, SumPositiveVolume(W), k)
        >= TotalDynamicWeight(W, SumPositiveVolume(W))

C24_WeightedMedianObservation ==
    NormalPath =>
        LET W == ValidPrices(prices, pairConfig, now)
        IN  /\ result.err = "none"
            /\ \E k \in 1..Len(W) :
                  /\ ReachesHalf(W, k)
                  /\ \A j \in 1..(k-1) : ~ReachesHalf(W, j)
                  /\ result.price = W[k].price
                  /\ result.ts = W[k].ts
            /\ \A k \in 1..Len(W) : ReachesHalf(W, k) => result.price <= W[k].price
            /\ \A k \in 1..(Len(W)-1) : W[k].price <= W[k+1].price

\* four observations of equal weight: the cumulative weight is exactly half of
\* the total at the second, whose price and timestamp differ from the third's
C24_Witness ==
    /\ NormalPath
    /\ LET W == ValidPrices(prices, pairConfig, now)
       IN  /\ Len(W) = 4
           /\ 2 * CumulativeDynamicWeight(W, SumPositiveVolume(W), 2)
                 = TotalDynamicWeight(W, SumPositiveVolume(W))
           /\ W[2].price < W[3].price
           /\ W[2].ts # W[3].ts
           /\ W[2].ts # W[4].ts
           /\ result.price = W[2].price
           /\ result.ts = W[2].ts

(***************************************************************************)
(* C25.  For every observation p of the final working set, with V the sum  *)
(* of the positive volumes of the working set: the dynamic weight of p is  *)
(* weight(p) * (1 + volume(p)/V) when V > 0 and volume(p) > 0, and         *)
(* weight(p) otherwise; hence for a non-negative static weight it lies     *)
(* between weight(p) and 2 * weight(p).  Dynamic weights are carried       *)
(* multiplied by V when V > 0, and the statement is multiplied through.    *)
(***************************************************************************)
PositiveVolumes(W) == {i \in 1..Len(W) : W[i].volume > 0}

RECURSIVE VolumeOver(_, _)
VolumeOver(W, I) ==
    IF I = {} THEN 0
    ELSE LET i == CHOOSE j \in I : TRUE
         IN  W[i].volume + VolumeOver(W, I \ {i})

\* V times the dynamic weight the statement gives to W[i] (the weight itself
\* when V is not positive)
StatedWeight(W, V, i) ==
    IF V > 0 /\ W[i].volume > 0
    THEN W[i].weight * (V + W[i].volume)
    ELSE IF V > 0 THEN W[i].weight * V ELSE W[i].weight

RECURSIVE StatedWeightOver(_, _, _)
StatedWeightOver(W, V, I) ==
    IF I = {} THEN 0
    ELSE LET i == CHOOSE j \in I : TRUE
         IN  StatedWeight(W, V, i) + StatedWeightOver(W, V, I \ {i})

\* the walk stops at k under the stated weights
StatedMedianAt(W, V, k) ==
    /\ 2 * StatedWeightOver(W, V, 1..k) >= StatedWeightOver(W, V, 1..Len(W))
    /\ \A j \in 1..(k-1) :
          2 * StatedWeightOver(W, V, 1..j) < StatedWeightOver(W, V, 1..Len(W))

C25_DynamicWeightFormula ==
    GatesPassed =>
        LET W     == ValidPrices(prices, pairConfig, now)
            V     == VolumeOver(W, PositiveVolumes(W))
            scale == IF V > 0 THEN V ELSE 1
        IN  /\ NormalPath =>
                  \E k \in 1..Len(W) :
                      StatedMedianAt(W, V, k) /\ result.price = W[k].price
            /\ \A i \in 1..Len(W) :
                 LET dw == DynamicWeight(W[i], SumPositiveVolume(W))
                 IN  /\ dw = StatedWeight(W, V, i)
                     /\ W[i].weight >= 0 =>
                           /\ W[i].weight * scale <= dw
                           /\ dw <= 2 * W[i].weight * scale

\* a working set in which one observation is boosted strictly between its
\* static weight and twice it, and one of negative volume is not boosted
C25_Witness ==
    /\ NormalPath
    /\ LET W  == ValidPrices(prices, pairConfig, now)
           V  == SumPositiveVolume(W)
       IN  /\ V > 1
           /\ \E i \in 1..Len(W) :
                 /\ W[i].weight > 0 /\ W[i].volume > 0
                 /\ DynamicWeight(W[i], V) > W[i].weight * V
                 /\ DynamicWeight(W[i], V) < 2 * W[i].weight * V
           /\ \E i \in 1..Len(W) :
                 /\ W[i].weight > 0 /\ W[i].volume < 0
                 /\ DynamicWeight(W[i], V) = W[i].weight * V

(***************************************************************************)
(* C28.  The price of every successful aggregation is the price of one of  *)
(* the observations tagged valid in that call: it is never interpolated.   *)
(* Hence it lies between the least and the greatest valid price, and when  *)
(* all valid observations report one price, that price is the result       *)
(* whatever the weights and volumes.                                       *)
(***************************************************************************)
ValidPriceSet ==
    {p.price : p \in Range(WithStatus(prices, pairConfig, now, "valid"))}

C28_PriceIsAValidObservation ==
    Aggregated =>
        /\ result.price \in ValidPriceSet
        /\ \E lo \in ValidPriceSet : lo <= result.price
        /\ \E hi \in ValidPriceSet : result.price <= hi
        /\ \A lo \in ValidPriceSet :
              (\A q \in ValidPriceSet : lo <= q) => lo <= result.price
        /\ \A hi \in ValidPriceSet :
              (\A q \in ValidPriceSet : q <= hi) => result.price <= hi
        /\ Cardinality(ValidPriceSet) = 1 => ValidPriceSet = {result.price}

\* the lower median of an even working set whose middle prices are two apart,
\* so that their mean is the price of no observation
C28_Witness ==
    /\ Aggregated
    /\ result.source = "aggregated_fallback_median_dyn"
    /\ LET W == ValidPrices(prices, pairConfig, now)
       IN  /\ Len(W) = 2
           /\ W[1].price + 2 = W[2].price
           /\ result.price = W[1].price
           /\ W[1].weight # W[2].weight

\* observations of one price and different weights and volumes, one of them
\* of non-positive weight, aggregated by the weighted walk
C28_WitnessEqualPrices ==
    /\ Aggregated
    /\ result.source = "aggregated_vol_weighted_median"
    /\ LET W == ValidPrices(prices, pairConfig, now)
       IN  /\ Len(W) = 3
           /\ Cardinality(ValidPriceSet) = 1
           /\ \E i, j \in 1..3 : W[i].weight # W[j].weight /\ W[i].volume # W[j].volume

(***************************************************************************)
(* The pure pipeline on its own.                                           *)
(***************************************************************************)
AggInit ==
    /\ pc = "aggregate"
    /\ pairConfig \in AggregationParams
    /\ prices \in PriceLists
    /\ now = Now
    /\ result = ErrorResult("pending")
    /\ FetchIdle
    /\ CacheEmpty
    /\ LockIdle
    /\ OutsideIdle
    /\ ConfigIdle

Aggregate ==
    /\ pc = "aggregate"
    /\ result' = calculateAggregatePrice(prices, pairConfig, now)
    /\ prices' = CallerPricesAfter(prices, pairConfig, now)
    /\ pc' = "done"
    /\ UNCHANGED <<lockVars, configVars, outsideVars, pairConfig, now, fetchVars, cacheVars, details>>

AggNext == Aggregate

SpecAgg == AggInit /\ [][AggNext]_vars

(***************************************************************************)
(* Scenario S2 of the specification: five fresh observations of age 1 s,   *)
(* prices 1646.0, 1646.5, 1647.0, 1647.5, 2000.0, volume 10 and static     *)
(* weight 0.25 each, k = 1.5, minimumSources = 3, maxPriceAgeSeconds = 60. *)
(* Prices are carried in half units (1646.5 is 3293) and static weights in *)
(* quarters (0.25 is 1); every float64 operation of the program on these   *)
(* values is exact.  The observations arrive in any order.                 *)
(***************************************************************************)
S2Params == [MinimumSources |-> 3, MaxPriceAgeSeconds |-> 60, IQRMultiplier2 |-> 3]

S2Observations ==
    Tagged(<<[price |-> 3292, volume |-> 10, ts |-> Now - 1, weight |-> 1],
             [price |-> 3293, volume |-> 10, ts |-> Now - 1, weight |-> 1],
             [price |-> 3294, volume |-> 10, ts |-> Now - 1, weight |-> 1],
             [price |-> 3295, volume |-> 10, ts |-> Now - 1, weight |-> 1],
             [price |-> 4000, volume |-> 10, ts |-> Now - 1, weight |-> 1]>>)

S2Init ==
    /\ pc = "aggregate"
    /\ pairConfig = S2Params
    /\ prices \in {Reordered(S2Observations, f) :
                      f \in Permutations(1..Len(S2Observations))}
    /\ now = Now
    /\ result = ErrorResult("pending")
    /\ FetchIdle
    /\ CacheEmpty
    /\ LockIdle
    /\ OutsideIdle
    /\ ConfigIdle

S2Next == Aggregate

SpecS2 == S2Init /\ [][S2Next]_vars

OutlierPrices ==
    {prices[i].price :
        i \in {j \in 1..Len(prices) :
                  StatusOf(prices[j], prices, pairConfig, now) = "outlier"}}

(***************************************************************************)
(* C16 as stated.  In scenario S2 the observation at 2000.0 is the only    *)
(* outlier, the result price is 1647.0 and the result volume is 40.        *)
(***************************************************************************)
C16_ScenarioS2_AsStated ==
    pc = "done" =>
        /\ OutlierPrices = {4000}
        /\ result.err = "none"
        /\ result.price = 3294
        /\ result.volume = 40

(***************************************************************************)
(* C16 amended.  In scenario S2 the observation at 2000.0 is the only      *)
(* outlier, the result volume is 40 and the result price is 1646.5: the    *)
(* four remaining observations carry equal dynamic weights, so the         *)
(* cumulative weight reaches half of the total at the second of them.      *)
(***************************************************************************)
C16_ScenarioS2 ==
    pc = "done" =>
        /\ OutlierPrices = {4000}
        /\ result.err = "none"
        /\ result.source = "aggregated_vol_weighted_median"
        /\ result.price = 3293
        /\ result.volume = 40

\* the scenario aggregated with the outlier arriving first
C16_Witness ==
    /\ pc = "done"
    /\ pairConfig = S2Params
    /\ prices[1].price = 4000
    /\ Len(ValidPrices(prices, pairConfig, now)) = 4
    /\ result.price = 3293

(***************************************************************************)
(* float64.  The static weights of a feed are decimal literals of          *)
(* pairs.json, decoded by encoding/json to the nearest float64, and the    *)
(* totals and the cumulative weight of calculateAggregatePrice are float64 *)
(* sums, each rounded to 53 significant bits (to nearest, ties to even).   *)
(* A non-negative float64 is carried as the set of the positions of its 1  *)
(* bits on a fixed binary grid: position F64Frac is the units bit, so the  *)
(* set B stands for the sum of 2^(i - F64Frac) over i in B.  The grid      *)
(* holds every value that occurs below exactly (weights of 1/32 and more,  *)
(* sums below 128).                                                        *)
(***************************************************************************)
F64Precision == 53

F64Frac == F64Precision + 7

F64Top == F64Frac + 7

F64Msb(B) == CHOOSE i \in B : \A j \in B : j <= i

\* the next value on the grid of spacing 2^cut above a multiple K of it
F64Succ(K, cut) ==
    LET z == Min({i \in cut..(F64Top + 1) : i \notin K})
    IN  {i \in K : i > z} \cup {z}

\* rounding of B, plus a non-zero remainder below the grid when sticky, to
\* F64Precision significant bits
F64Round(B, sticky) ==
    IF B = {} THEN {}
    ELSE LET cut == F64Msb(B) - (F64Precision - 1)
         IN  IF cut <= 0 THEN B
             ELSE LET kept == {i \in B : i >= cut}
                      half == (cut - 1) \in B
                      rest == sticky \/ \E i \in B : i < cut - 1
                  IN  IF half /\ (rest \/ cut \in B)
                      THEN F64Succ(kept, cut)
                      ELSE kept

\* the carry into position i: some lower position generates one and every
\* position in between passes it on
F64Carry(A, B, i) ==
    \E j \in A \cap B :
        /\ j < i
        /\ \A k \in (j+1)..(i-1) : k \in A \/ k \in B

F64ExactSum(A, B) ==
    {i \in 0..(F64Top + 1) :
        (i \in A) # ((i \in B) # F64Carry(A, B, i))}

\* x + y
F64Add(A, B) == F64Round(F64ExactSum(A, B), FALSE)

\* x >= y
F64Geq(A, B) == A = B \/ F64Msb((A \ B) \cup (B \ A)) \in A

\* x * 0.5, exact
F64Half(A) == {i - 1 : i \in A}

\* x <= 0, for the non-negative values carried here
F64NotPositive(A) == A = {}

\* 2^m modulo n
RECURSIVE PowerOfTwoMod(_, _)
PowerOfTwoMod(m, n) ==
    IF m = 0 THEN 1 % n
    ELSE LET root == PowerOfTwoMod(m \div 2, n)
         IN  IF m % 2 = 0 THEN (root * root) % n
                          ELSE (2 * root * root) % n

\* the bit at position i of the integer part of num * 2^F64Frac / den
QuotientBit(lit, i) ==
    IF i > F64Frac
    THEN (lit.num \div (lit.den * 2 ^ (i - F64Frac))) % 2 = 1
    ELSE (lit.num * PowerOfTwoMod(F64Frac - i, 2 * lit.den)) % (2 * lit.den)
            >= lit.den

\* the float64 nearest to the decimal literal num/den
ParseFloat(lit) ==
    F64Round({i \in 0..F64Top : QuotientBit(lit, i)},
             (lit.num * PowerOfTwoMod(F64Frac, lit.den)) % lit.den # 0)

(***************************************************************************)
(* The weighting stage on float64 weights, for observations that report no *)
(* volume: totalVolume is 0, so the boost of lines 574-579 is not applied  *)
(* and every dynamic weight is the static weight.                          *)
(***************************************************************************)
F64CumulativeWeight(s, n) ==
    LET f[i \in 0..n] == IF i = 0 THEN {} ELSE F64Add(f[i-1], s[i].weight)
    IN  f[n]

F64CrossingIndices(s) ==
    {i \in 1..Len(s) :
        F64Geq(F64CumulativeWeight(s, i), F64Half(F64CumulativeWeight(s, Len(s))))}

F64WeightedMedianResult(s) ==
    LET crossing == F64CrossingIndices(s)
    IN  IF crossing = {}
        THEN ErrorResult("no_weighted_median")
        ELSE [err    |-> "none",
              source |-> "aggregated_vol_weighted_median",
              price  |-> s[Min(crossing)].price,
              volume |-> SumPositiveVolume(s),
              ts     |-> s[Min(crossing)].ts]

F64WeighValidPrices(s) ==
    IF F64NotPositive(F64CumulativeWeight(s, Len(s)))
    THEN IF Len(s) > 0 THEN FallbackResult(s)
                       ELSE ErrorResult("cannot_calculate_median")
    ELSE F64WeightedMedianResult(s)

F64calculateAggregatePrice(ps, config, t) ==
    IF Len(ps) = 0
    THEN ErrorResult("no_prices")
    ELSE IF Len(FreshPrices(ps, config, t)) < config.MinimumSources
    THEN ErrorResult("insufficient_non_stale")
    ELSE IF Len(IQRFilter(SortByPrice(FreshPrices(ps, config, t)), config))
                < config.MinimumSources
    THEN ErrorResult("insufficient_non_outlier")
    ELSE F64WeighValidPrices(ValidPrices(ps, config, t))

(***************************************************************************)
(* Feeds whose weights are written in twentieths (0.05, 0.10, ...): the    *)
(* i-th source reports price i, fresh, without volume, and carries the     *)
(* weight its feed configures for it.                                      *)
(***************************************************************************)
MaxTwentieths == 8

MaxScaled == 3

WeightLiterals == [num : 1..MaxTwentieths, den : {20}]

ScaleFactors == {2, 20}

ScaleConfigs ==
    {[MinimumSources |-> 1, MaxPriceAgeSeconds |-> 1, IQRMultiplier2 |-> 3,
      Weights |-> w] :
        w \in UNION {[1..n -> WeightLiterals] : n \in 1..MaxScaled}}

\* the literal of a weight multiplied by c
Scaled(lit, c) == [num |-> c * lit.num, den |-> lit.den]

ScaledConfig(config, c) ==
    [config EXCEPT !.Weights = [i \in DOMAIN config.Weights |->
                                   Scaled(config.Weights[i], c)]]

ScaleObservations(config) ==
    [i \in DOMAIN config.Weights |->
        [source |-> i, price |-> i, volume |-> 0, ts |-> Now,
         weight |-> ParseFloat(config.Weights[i])]]

ScaleInit ==
    /\ pc = "aggregate"
    /\ pairConfig \in ScaleConfigs
    /\ prices = ScaleObservations(pairConfig)
    /\ now = Now
    /\ result = ErrorResult("pending")
    /\ FetchIdle
    /\ CacheEmpty
    /\ LockIdle
    /\ OutsideIdle
    /\ ConfigIdle

F64Aggregate ==
    /\ pc = "aggregate"
    /\ result' = F64calculateAggregatePrice(prices, pairConfig, now)
    /\ prices' = CallerPricesAfter(prices, pairConfig, now)
    /\ pc' = "done"
    /\ UNCHANGED <<lockVars, configVars, outsideVars, pairConfig, now, fetchVars, cacheVars, details>>

ScaleNext == F64Aggregate

SpecScale == ScaleInit /\ [][ScaleNext]_vars

(***************************************************************************)
(* C22.  Static weights are normalised during the calculation: multiplying *)
(* every static weight of a feed by the same positive constant changes     *)
(* neither the price, the volume, the timestamp nor the provenance of the  *)
(* result, for any observation set.                                        *)
(***************************************************************************)
C22_WeightScaleInvariant ==
    pc = "done" =>
        \A c \in ScaleFactors :
            F64calculateAggregatePrice(
                ScaleObservations(ScaledConfig(pairConfig, c)), pairConfig, now)
              = result

(***************************************************************************)
(* The configuration graph: the LoadedConfig built by LoadAllConfigs, its  *)
(* validation, and the resolution of a feed.  Chains and Assets are the    *)
(* key sets of their maps; Sources and Pairs are maps from ID to record.   *)
(***************************************************************************)
MaxConfigWeight == 1

MaxMinimumSources == 2

LoadedChains == {{"eth"}, {"eth", "sol"}}

LoadedAssets == {{"ETH"}, {"ETH", "USDC"}}

CEXSources == [Type : {"cex"}, ChainID : {"", "sol"}]

DEXSources ==
    { [Type |-> "dex_subgraph", ChainID |-> ""],
      [Type |-> "dex_subgraph", ChainID |-> "eth"],
      [Type |-> "dex_rpc",      ChainID |-> "sol"] }

LoadedSources ==
    {("binance_cex" :> c) : c \in CEXSources}
    \cup {("binance_cex" :> c) @@ ("uniswap_eth" :> d) :
             c \in CEXSources, d \in DEXSources}

SourceIDLists ==
    { <<>>, <<"binance_cex">>, <<"uniswap_eth">>,
      <<"binance_cex", "uniswap_eth">>, <<"uniswap_eth", "binance_cex">> }

SourceWeightMaps ==
    UNION {[D -> -1..MaxConfigWeight] : D \in SUBSET {"binance_cex", "uniswap_eth"}}

LoadedPairs ==
    {("ETHUSDC" :>
        [BaseAsset |-> "ETH", QuoteAsset |-> "USDC", ChainID |-> ch,
         Aggregation |-> [MinimumSources |-> m, MaxPriceAgeSeconds |-> 1,
                          IQRMultiplier2 |-> 3],
         SourceIDs |-> ids, SourceWeights |-> w]) :
        ch \in {"", "global", "eth", "sol"}, m \in 0..MaxMinimumSources,
        ids \in SourceIDLists, w \in SourceWeightMaps}

LoadedConfigs ==
    [Chains : LoadedChains, Assets : LoadedAssets, Sources : LoadedSources,
     Pairs : LoadedPairs]

\* the feed IDs a caller asks for
PairIDs == {"ETHUSDC", "BTCUSDC"}

IsDEX(source) == source.Type \in {"dex_rpc", "dex_subgraph"}

Accepted == [kind |-> "ok", item |-> ""]

Refused(kind, item) == [kind |-> kind, item |-> item]

\* the check of one entry of config.Sources
SourceError(config, id) ==
    LET source == config.Sources[id]
    IN  IF IsDEX(source) /\ source.ChainID = ""
        THEN Refused("dex_missing_chain", id)
        ELSE IF IsDEX(source) /\ source.ChainID \notin config.Chains
        THEN Refused("source_unknown_chain", id)
        ELSE Accepted

\* variant: the sources of a pair are not looked up
UnknownSource_Unchecked(config, sourceID) == FALSE

UnknownSource(config, sourceID) == sourceID \notin DOMAIN config.Sources

MissingWeight(pair, sourceID) == sourceID \notin DOMAIN pair.SourceWeights

\* variant: the chain of a source is not compared with the chain of the pair
ChainMismatch_Unchecked(src, pair) == FALSE

ChainMismatch(src, pair) ==
    /\ src.ChainID # ""
    /\ pair.ChainID # "global"
    /\ src.ChainID # pair.ChainID

\* config.Sources[sourceID]: a Go map yields the zero Source for a missing key
SourceAt(config, sourceID) ==
    IF sourceID \in DOMAIN config.Sources
    THEN config.Sources[sourceID]
    ELSE [Type |-> "", ChainID |-> ""]

\* the checks of one entry of pair.SourceIDs
SourceIDError(config, pair, sourceID) ==
    IF UnknownSource(config, sourceID)
    THEN Refused("unknown_source", sourceID)
    ELSE IF MissingWeight(pair, sourceID)
    THEN Refused("missing_weight", sourceID)
    ELSE IF ChainMismatch(SourceAt(config, sourceID), pair)
    THEN Refused("chain_mismatch", sourceID)
    ELSE Accepted

\* the loop over pair.SourceIDs stops at the first entry that fails
SourceIDsError(config, pair) ==
    LET bad == {i \in 1..Len(pair.SourceIDs) :
                   SourceIDError(config, pair, pair.SourceIDs[i]) # Accepted}
    IN  IF bad = {} THEN Accepted
        ELSE SourceIDError(config, pair, pair.SourceIDs[Min(bad)])

\* the checks of one entry of config.Pairs
PairError(config, id) ==
    LET pair == config.Pairs[id]
    IN  IF pair.BaseAsset \notin config.Assets
        THEN Refused("unknown_base_asset", id)
        ELSE IF pair.QuoteAsset \notin config.Assets
        THEN Refused("unknown_quote_asset", id)
        ELSE IF pair.ChainID # "" /\ pair.ChainID # "global"
                /\ pair.ChainID \notin config.Chains
        THEN Refused("pair_unknown_chain", id)
        ELSE IF Len(pair.SourceIDs) = 0
        THEN Refused("no_sources", id)
        ELSE IF pair.Aggregation.MinimumSources <= 0
        THEN Refused("invalid_minimum_sources", id)
        ELSE IF pair.Aggregation.MinimumSources > Len(pair.SourceIDs)
        THEN Refused("minimum_sources_exceeds", id)
        ELSE SourceIDsError(config, pair)

\* ValidateLoadedConfig returns the first error it meets; the maps are ranged
\* over in no fixed order, so any failing entry of a map may be that first one
ValidateLoadedConfig(config) ==
    IF config.Assets = {} THEN {Refused("no_assets", "")}
    ELSE IF DOMAIN config.Sources = {} THEN {Refused("no_sources_defined", "")}
    ELSE IF DOMAIN config.Pairs = {} THEN {Refused("no_pairs", "")}
    ELSE IF \E id \in DOMAIN config.Sources : SourceError(config, id) # Accepted
    THEN {SourceError(config, id) : id \in DOMAIN config.Sources} \ {Accepted}
    ELSE IF \E id \in DOMAIN config.Pairs : PairError(config, id) # Accepted
    THEN {PairError(config, id) : id \in DOMAIN config.Pairs} \ {Accepted}
    ELSE {Accepted}

ResolveError(pairID, e) ==
    [asked |-> pairID, err |-> e, PairID |-> "", BaseAsset |-> "",
     QuoteAsset |-> "", Chain |-> "", AggregationParams |-> <<>>,
     ResolvedSources |-> <<>>, SourceWeights |-> <<>>]

\* the ResolvedSource of every entry of SourceIDs, in order
ResolvedSources(loadedCfg, sourceIDs) ==
    [i \in 1..Len(sourceIDs) |->
        [SourceID |-> sourceIDs[i], Details |-> loadedCfg.Sources[sourceIDs[i]]]]

GetResolvedPairConfig(loadedCfg, pairID) ==
    IF pairID \notin DOMAIN loadedCfg.Pairs
    THEN ResolveError(pairID, "pair_not_found")
    ELSE LET pairCfg == loadedCfg.Pairs[pairID]
         IN  IF pairCfg.BaseAsset \notin loadedCfg.Assets
             THEN ResolveError(pairID, "base_asset_not_found")
             ELSE IF pairCfg.QuoteAsset \notin loadedCfg.Assets
             THEN ResolveError(pairID, "quote_asset_not_found")
             ELSE IF pairCfg.ChainID # "" /\ pairCfg.ChainID # "global"
                     /\ pairCfg.ChainID \notin loadedCfg.Chains
             THEN ResolveError(pairID, "chain_not_found")
             ELSE IF \E i \in 1..Len(pairCfg.SourceIDs) :
                        pairCfg.SourceIDs[i] \notin DOMAIN loadedCfg.Sources
             THEN ResolveError(pairID, "source_not_found")
             ELSE [asked |-> pairID, err |-> "none", PairID |-> pairID,
                   BaseAsset |-> pairCfg.BaseAsset,
                   QuoteAsset |-> pairCfg.QuoteAsset,
                   Chain |-> IF pairCfg.ChainID # "" /\ pairCfg.ChainID # "global"
                             THEN pairCfg.ChainID ELSE "nil",
                   AggregationParams |-> pairCfg.Aggregation,
                   ResolvedSources |->
                       ResolvedSources(loadedCfg, pairCfg.SourceIDs),
                   SourceWeights |-> pairCfg.SourceWeights]

ConfigInit ==
    /\ pc = "load"
    /\ loaded \in LoadedConfigs
    /\ validation = NoValidation
    /\ resolved = NoResolved
    /\ pairConfig = NoConfig
    /\ prices = <<>>
    /\ now = 0
    /\ result = ErrorResult("pending")
    /\ FetchIdle
    /\ CacheEmpty
    /\ LockIdle
    /\ OutsideIdle

\* LoadAllConfigs validates what it loaded and hands it out only if accepted
LoadAllConfigs ==
    /\ pc = "load"
    /\ \E v \in ValidateLoadedConfig(loaded) :
          /\ validation' = v
          /\ pc' = IF v = Accepted THEN "loaded" ELSE "refused"
    /\ UNCHANGED <<loaded, resolved, pairConfig, prices, now, result, fetchVars,
                   cacheVars, details, lockVars, outsideVars>>

\* a request resolves a feed of the loaded configuration
Resolve(pairID) ==
    /\ pc = "loaded"
    /\ resolved' = GetResolvedPairConfig(loaded, pairID)
    /\ UNCHANGED <<pc, loaded, validation, pairConfig, prices, now, result,
                   fetchVars, cacheVars, details, lockVars, outsideVars>>

ConfigNext ==
    \/ LoadAllConfigs
    \/ \E pairID \in PairIDs : Resolve(pairID)

SpecConfig == ConfigInit /\ [][ConfigNext]_vars

\* a request has resolved feed id on an accepted configuration
ResolvedOK(id) == pc = "loaded" /\ resolved.asked = id /\ resolved.err = "none"

IsGlobal(pair) == pair.ChainID \in {"", "global"}

SourceIDsOf(rs) == [i \in 1..Len(rs) |-> rs[i].SourceID]

(***************************************************************************)
(* C17.  On a configuration accepted by validation, resolving a feed       *)
(* succeeds exactly when the feed is configured and fails with NotFound    *)
(* otherwise, never for a missing asset, chain or source; and resolving    *)
(* leaves the loaded configuration unchanged.                              *)
(***************************************************************************)
ResolveSucceedsIffConfigured ==
    (pc = "loaded" /\ resolved.asked # "") =>
        /\ validation = Accepted
        /\ (resolved.err = "none") <=> (resolved.asked \in DOMAIN loaded.Pairs)
        /\ resolved.err \in {"none", "pair_not_found"}
        /\ resolved.err = "none" =>
              /\ resolved.PairID = resolved.asked
              /\ resolved.BaseAsset \in loaded.Assets
              /\ resolved.QuoteAsset \in loaded.Assets
              /\ resolved.Chain \in loaded.Chains \cup {"nil"}
              /\ \A i \in 1..Len(resolved.ResolvedSources) :
                    resolved.ResolvedSources[i].SourceID \in DOMAIN loaded.Sources

C17_ResolveTotalOnAccepted ==
    /\ []ResolveSucceedsIffConfigured
    /\ [][pc = "loaded" => loaded' = loaded]_vars

\* a feed on a chain, with two sources, has been resolved
C17_Witness ==
    /\ ResolvedOK("ETHUSDC")
    /\ resolved.Chain = "eth"
    /\ Len(resolved.ResolvedSources) = 2

(***************************************************************************)
(* C18.  The source list of a resolved feed is the feed's configured list, *)
(* in its order, restricted to the sources applicable to the feed's chain: *)
(* a source without chainId is included for any feed, a source whose       *)
(* chainId differs from that of a non-global feed is not included.         *)
(***************************************************************************)
Applicable(config, pair, sourceID) ==
    \/ config.Sources[sourceID].ChainID = ""
    \/ IsGlobal(pair)
    \/ config.Sources[sourceID].ChainID = pair.ChainID

C19_WeightsValidated ==
    validation = Accepted =>
        \A id \in DOMAIN loaded.Pairs :
            LET pair == loaded.Pairs[id]
            IN  /\ \A i \in 1..Len(pair.SourceIDs) :
                      pair.SourceIDs[i] \in DOMAIN pair.SourceWeights
                /\ \A sid \in DOMAIN pair.SourceWeights :
                      pair.SourceWeights[sid] >= 0
                /\ \E sid \in DOMAIN pair.SourceWeights :
                      pair.SourceWeights[sid] > 0

(***************************************************************************)
(* C20.  In every accepted configuration a feed that is not global lists   *)
(* only DEX sources of the feed's own chain; and a global feed (chainId    *)
(* "global" or empty) and CEX sources are never refused on chain grounds.  *)
(***************************************************************************)
C20_ChainRuleValidated ==
    /\ validation = Accepted =>
          \A id \in DOMAIN loaded.Pairs :
              LET pair == loaded.Pairs[id]
              IN  ~IsGlobal(pair) =>
                      \A i \in 1..Len(pair.SourceIDs) :
                          IsDEX(loaded.Sources[pair.SourceIDs[i]]) =>
                              loaded.Sources[pair.SourceIDs[i]].ChainID = pair.ChainID
    /\ validation.kind = "chain_mismatch" =>
          /\ IsDEX(loaded.Sources[validation.item])
          /\ \A id \in DOMAIN loaded.Pairs : ~IsGlobal(loaded.Pairs[id])

(***************************************************************************)
(* The pipeline under a configuration as LoadConfig leaves it.  LoadConfig *)
(* unmarshals pairs.json into PairsConfig and checks no field, so a feed   *)
(* whose aggregation block leaves minimumSources out carries the zero      *)
(* value of the int.                                                       *)
(***************************************************************************)
UnvalidatedParams ==
    AggregationParams \cup
        { [MinimumSources |-> 0, MaxPriceAgeSeconds |-> 1, IQRMultiplier2 |-> 2] }

UnvalidatedInit ==
    /\ pc = "aggregate"
    /\ pairConfig \in UnvalidatedParams
    /\ prices \in PriceLists
    /\ now = Now
    /\ result = ErrorResult("pending")
    /\ FetchIdle
    /\ CacheEmpty
    /\ LockIdle
    /\ OutsideIdle
    /\ ConfigIdle

SpecUnvalidated == UnvalidatedInit /\ [][AggNext]_vars

(***************************************************************************)
(* C29.  Once both minimum-sources gates have passed, the pipeline always  *)
(* returns a price: with a positive total dynamic weight the walk selects  *)
(* an observation, and neither "failed to determine volume-enhanced        *)
(* weighted median price point" nor "cannot calculate median" is returned, *)
(* whatever the weights and volumes.                                       *)
(***************************************************************************)
C29_AlwaysAPriceOnceGatesPassed ==
    GatesPassed =>
        /\ result.err = "none"
        /\ result.err \notin {"no_weighted_median", "cannot_calculate_median"}
        /\ NormalPath => result.source = "aggregated_vol_weighted_median"

(***************************************************************************)
(* FetchPrice under fair scheduling: as long as some goroutine of the       *)
(* request can take a step, one of them eventually does, and every fetch   *)
(* returns (each HTTP call is bounded by the client's Timeout).  The clock *)
(* and the /sources handler are not forced.                                *)
(***************************************************************************)
GoroutineStep ==
    \/ \E s \in AllSources : FetchTask(s)
    \/ \E s \in AllSources : TaskDone(s)
    \/ CloseChan
    \/ Collect

\* the range loop of the collector can end
ReturnEnabled == pc = "collect" /\ chanClosed /\ resultsChan = <<>>

\* weak fairness of the goroutines, and of the collector's return, whose
\* enabling condition is written out as ReturnEnabled
Fairness ==
    /\ WF_vars(GoroutineStep)
    /\ ([]<>~ReturnEnabled \/ []<><<FetchPriceReturn>>_vars)

FairSpec == Spec /\ Fairness

(***************************************************************************)
(* C27.  Provided every fetch terminates, the fan-out/fan-in of FetchPrice *)
(* terminates for every feed.  Every launched task delivers exactly one    *)
(* result, an observation or the failure marker, and never finds the       *)
(* channel full; no task is left to send once the channel is closed; and   *)
(* the collector goes on only after it has received one result from every  *)
(* task.                                                                   *)
(***************************************************************************)
Launched == {s \in AllSources : taskPc[s] # "none"}

Delivered == {s \in AllSources : taskPc[s] \in {"sent", "done"}}

\* how many results the collector has taken off the channel
Received == Len(observed) - Len(resultsChan)

FanInSafe ==
    /\ \A s \in AllSources :
          taskPc[s] = "running" =>
              /\ ~chanClosed
              /\ Len(resultsChan) < numSources(pairConfig)
    /\ Len(observed) = Cardinality(Delivered)
    /\ \A s \in Delivered :
          Cardinality({i \in 1..Len(observed) : observed[i].source = s}) = 1
    /\ wg = Cardinality(Launched) - Cardinality({s \in AllSources : taskPc[s] = "done"})
    /\ (pc = "done" /\ symbol \in DOMAIN PairsConfig) =>
          /\ Launched = Tasks(pairConfig)
          /\ \A s \in Launched : taskPc[s] = "done"
          /\ chanClosed
          /\ Received = Cardinality(Launched)

C27_FanInTerminates ==
    /\ []FanInSafe
    /\ (pc = "collect") ~> (pc = "done")

\* a request over three tasks has returned after one of them delivered the
\* failure marker and the other two an observation
C27_Witness ==
    /\ pc = "done"
    /\ Cardinality(Launched) = 3
    /\ Len(observed) = 3
    /\ \E i \in 1..3 : observed[i].status = "fetch_error"
    /\ Len(prices) = 2
    /\ chanClosed

(***************************************************************************)
(* The source fetchers: fetchBinancePrice, fetchCoinbasePrice,             *)
(* fetchKrakenPrice and fetchUniswapV3Price.  Each sends one HTTP request, *)
(* checks the status of the response, decodes the body and parses the      *)
(* price and the volume out of it.  A body either is no JSON, or carries   *)
(* an error of the API in place of a ticker (for Binance and Coinbase this *)
(* leaves the price field empty), or carries a ticker whose price and      *)
(* volume strings may or may not be numbers.                               *)
(***************************************************************************)
Fetchers == {"binance", "coinbase", "kraken", "uniswap_v3"}

StatusOK == 200

HTTPStatuses == {200, 201, 203, 206, 304, 404, 429, 500}

Bodies ==
    [json : BOOLEAN, refused : BOOLEAN, priceOK : BOOLEAN,
     price : 1..MaxFetchPrice, volumeOK : BOOLEAN, volume : {1}]

Responses ==
    [source : Fetchers, failed : BOOLEAN, status : HTTPStatuses, body : Bodies]

fetchSourcePrice(resp, t) ==
    IF resp.failed
    THEN ErrorResult("request_failed")
    ELSE IF resp.status # StatusOK
    THEN ErrorResult("api_error_status")
    ELSE IF ~resp.body.json
    THEN ErrorResult("decode_failed")
    ELSE IF resp.body.refused
    THEN IF resp.source \in {"kraken", "uniswap_v3"}
         THEN ErrorResult("api_returned_errors")
         ELSE ErrorResult("parse_price_failed")
    ELSE IF ~resp.body.priceOK
    THEN ErrorResult("parse_price_failed")
    ELSE [err    |-> "none",
          source |-> resp.source,
          price  |-> resp.body.price,
          volume |-> IF resp.source = "coinbase" THEN 0
                     ELSE IF resp.body.volumeOK THEN resp.body.volume ELSE 0,
          ts     |-> t]

FetcherInit ==
    /\ pc = "fetch"
    /\ response \in Responses
    /\ contract = NoContract
    /\ receipt = NoReceipt
    /\ pairConfig = NoConfig
    /\ prices = <<>>
    /\ now = Now
    /\ result = ErrorResult("pending")
    /\ FetchIdle
    /\ CacheEmpty
    /\ LockIdle
    /\ ConfigIdle

FetcherReturn ==
    /\ pc = "fetch"
    /\ result' = fetchSourcePrice(response, now)
    /\ pc' = "done"
    /\ UNCHANGED <<lockVars, configVars, outsideVars, pairConfig, prices, now,
                   fetchVars, cacheVars, details>>

FetcherNext == FetcherReturn

SpecFetcher == FetcherInit /\ [][FetcherNext]_vars

\* the body decodes to a ticker with a numeric price
Parseable(body) == body.json /\ ~body.refused /\ body.priceOK

(***************************************************************************)
(* C26.  A fetcher returns an observation only for a 2xx response: every   *)
(* non-2xx status yields an error, and every 2xx status with a parseable   *)
(* body yields an observation.                                             *)
(***************************************************************************)
C26_ObservationIffSuccessStatus ==
    pc = "done" =>
        ((result.err = "none")
            <=> /\ ~response.failed
                /\ response.status \in 200..299
                /\ Parseable(response.body))

(***************************************************************************)
(* The ModernOracle contract.  contract holds its storage: the Pausable    *)
(* flag, minimumSources, maxDeviationPercentage and the DataFeed of every  *)
(* feedId (sources in push order, sourceValues with 0 for an address never *)
(* written).  A transaction that reverts leaves the storage as it was.     *)
(* receipt records the last transaction and, as long as the settings of    *)
(* the deployment stand, the last positive value each source has passed to *)
(* updateFeed.  now is block.timestamp.                                    *)
(***************************************************************************)
MaxValue == 2

MaxBlockTime == 1

minimumSources == 3

maxDeviationPercentage == 10

Addresses == {"source1", "source2", "source3"}

Senders == {"owner", "stranger"}

FeedIds == {"ETH/USD"}

MinimumSourcesChoices == {1, 2, minimumSources}

offChainVars == <<lockVars, configVars, response, pc, symbol, pairConfig, prices,
                  result, fetchVars, cacheVars, details>>

EmptyFeed ==
    [value |-> 0, timestamp |-> 0, confidence |-> 0, sources |-> <<>>,
     sourceValues |-> [a \in Addresses |-> 0]]

Deployed ==
    [deployed |-> TRUE, owner |-> "owner", paused |-> FALSE,
     minimumSources |-> minimumSources,
     maxDeviationPercentage |-> maxDeviationPercentage,
     dataFeeds |-> [f \in FeedIds |-> EmptyFeed]]

NothingSubmitted == [a \in Addresses |-> 0]

\* the settings of the deployment no longer stand
Reconfigured == [a \in Addresses |-> -1]

\* the in-place exchange sort of calculateMedianAndConfidence
RECURSIVE InnerLoop(_, _, _)
InnerLoop(values, i, j) ==
    IF j > Len(values) THEN values
    ELSE InnerLoop(IF values[i] > values[j]
                   THEN [values EXCEPT ![i] = values[j], ![j] = values[i]]
                   ELSE values,
                   i, j + 1)

RECURSIVE OuterLoop(_, _)
OuterLoop(values, i) ==
    IF i > Len(values) THEN values
    ELSE OuterLoop(InnerLoop(values, i, i + 1), i + 1)

abs(x) == IF x >= 0 THEN x ELSE -x

\* variant: the requirement on the number of sources is missing
calculateMedianAndConfidence_NoMinimum(feed, c) ==
    LET n        == Len(feed.sources)
        values   == OuterLoop([i \in 1..n |-> feed.sourceValues[feed.sources[i]]], 1)
        median   == IF n % 2 = 0
                    THEN (values[n \div 2] + values[(n \div 2) + 1]) \div 2
                    ELSE values[(n \div 2) + 1]
        maxDev   == (median * c.maxDeviationPercentage) \div 100
        validSources == Cardinality({i \in 1..n : abs(values[i] - median) <= maxDev})
    IN  [reverted |-> FALSE, median |-> median,
         confidence |-> (validSources * 100) \div n]

calculateMedianAndConfidence(feed, c) ==
    IF Len(feed.sources) < c.minimumSources
    THEN [reverted |-> TRUE, median |-> 0, confidence |-> 0]
    ELSE
    LET n        == Len(feed.sources)
        values   == OuterLoop([i \in 1..n |-> feed.sourceValues[feed.sources[i]]], 1)
        median   == IF n % 2 = 0
                    THEN (values[n \div 2] + values[(n \div 2) + 1]) \div 2
                    ELSE values[(n \div 2) + 1]
        maxDev   == (median * c.maxDeviationPercentage) \div 100
        validSources == Cardinality({i \in 1..n : abs(values[i] - median) <= maxDev})
    IN  [reverted |-> FALSE, median |-> median,
         confidence |-> (validSources * 100) \div n]

\* the feed as updateFeed has written it when it reaches its last statement
Updated(feed, value, source, c) ==
    LET pushed == [feed EXCEPT
                      !.sources = IF feed.sourceValues[source] = 0
                                  THEN Append(feed.sources, source)
                                  ELSE feed.sources,
                      !.sourceValues[source] = value]
        r      == calculateMedianAndConfidence(pushed, c)
    IN  [pushed EXCEPT !.value = r.median, !.confidence = r.confidence,
                       !.timestamp = now]

updateFeedReverts(feedId, value, source) ==
    \/ contract.paused
    \/ value = 0
    \/ calculateMedianAndConfidence(
           [contract.dataFeeds[feedId] EXCEPT
               !.sources = IF contract.dataFeeds[feedId].sourceValues[source] = 0
                           THEN Append(contract.dataFeeds[feedId].sources, source)
                           ELSE contract.dataFeeds[feedId].sources,
               !.sourceValues[source] = value],
           contract).reverted

Submit(source, value) ==
    IF receipt.submitted = Reconfigured \/ contract.paused \/ value = 0
    THEN receipt.submitted
    ELSE [receipt.submitted EXCEPT ![source] = value]

updateFeed(feedId, value, source) ==
    /\ contract.deployed
    /\ IF updateFeedReverts(feedId, value, source)
       THEN /\ contract' = contract
            /\ receipt' = [call |-> "updateFeed", reverted |-> TRUE,
                           submitted |-> Submit(source, value)]
       ELSE /\ contract' = [contract EXCEPT !.dataFeeds[feedId] =
                               Updated(contract.dataFeeds[feedId], value, source, contract)]
            /\ receipt' = [call |-> "updateFeed", reverted |-> FALSE,
                           submitted |-> Submit(source, value)]
    /\ UNCHANGED <<offChainVars, now>>

\* an onlyOwner function that assigns the storage as new
OwnerCall(name, sender, new) ==
    /\ contract.deployed
    /\ IF sender # contract.owner
       THEN /\ contract' = contract
            /\ receipt' = [call |-> name, reverted |-> TRUE,
                           submitted |-> receipt.submitted]
       ELSE /\ contract' = new
            /\ receipt' = [call |-> name, reverted |-> FALSE,
                           submitted |-> Reconfigured]
    /\ UNCHANGED <<offChainVars, now>>

setMinimumSources(sender, n) ==
    OwnerCall("setMinimumSources", sender, [contract EXCEPT !.minimumSources = n])

\* _pause requires whenNotPaused
pause(sender) ==
    /\ ~contract.paused
    /\ OwnerCall("pause", sender, [contract EXCEPT !.paused = TRUE])

\* _unpause requires whenPaused
unpause(sender) ==
    /\ contract.paused
    /\ OwnerCall("unpause", sender, [contract EXCEPT !.paused = FALSE])

\* a block is mined
Mine ==
    /\ contract.deployed
    /\ now < MaxBlockTime
    /\ now' = now + 1
    /\ UNCHANGED <<offChainVars, contract, receipt>>

ContractInit ==
    /\ pc = "idle"
    /\ contract = Deployed
    /\ receipt = [call |-> "constructor", reverted |-> FALSE,
                  submitted |-> NothingSubmitted]
    /\ response = NoResponse
    /\ pairConfig = NoConfig
    /\ prices = <<>>
    /\ now = 0
    /\ result = ErrorResult("pending")
    /\ FetchIdle
    /\ CacheEmpty
    /\ LockIdle
    /\ ConfigIdle

ContractNext ==
    \/ \E f \in FeedIds, v \in 0..MaxValue, a \in Addresses : updateFeed(f, v, a)
    \/ \E s \in Senders, n \in MinimumSourcesChoices : setMinimumSources(s, n)
    \/ \E s \in Senders : pause(s)
    \/ \E s \in Senders : unpause(s)
    \/ Mine

SpecContract == ContractInit /\ [][ContractNext]_vars

(***************************************************************************)
(* C30.  From the deployed state (minimumSources 3, not paused), once      *)
(* updateFeed has been called for a feedId by three distinct sources with  *)
(* positive values, the feed holds those three sources and its stored      *)
(* value is the median of the last values they passed.                     *)
(***************************************************************************)
AllSubmitted ==
    /\ receipt.submitted # Reconfigured
    /\ \A a \in Addresses : receipt.submitted[a] > 0

MedianSubmitted ==
    CHOOSE m \in {receipt.submitted[a] : a \in Addresses} :
        /\ 2 * Cardinality({a \in Addresses : receipt.submitted[a] <= m})
               > Cardinality(Addresses)
        /\ 2 * Cardinality({a \in Addresses : receipt.submitted[a] >= m})
               > Cardinality(Addresses)

C30_ThreeSourcesThenMedian ==
    AllSubmitted =>
        \A f \in FeedIds :
            /\ Len(contract.dataFeeds[f].sources) = Cardinality(Addresses)
            /\ Range(contract.dataFeeds[f].sources) = Addresses
            /\ contract.dataFeeds[f].value = MedianSubmitted

\* the other half of the statement: a reverted updateFeed leaves the storage
\* of the contract, the feed's sources and values included, as it was
C30_RevertLeavesFeed ==
    [][(receipt'.call = "updateFeed" /\ receipt'.reverted) => contract' = contract]_vars

\* with the minimum lowered to 1 by the owner, three sources fill a feed and
\* its value is the median of their values
C30_FeedFilledAfterLowering ==
    /\ contract.minimumSources = 1
    /\ \E f \in FeedIds :
          /\ Len(contract.dataFeeds[f].sources) = 3
          /\ \E a, b \in Addresses :
                contract.dataFeeds[f].sourceValues[a] # contract.dataFeeds[f].sourceValues[b]

====
